---- MODULE Spec2Model ----
(***************************************************************************)
(* Closing-workflow state machine of the closingagent repository: the      *)
(* persisted tables (transactions, approval_links, inbox_emails,           *)
(* documents, email_outbox), the route handlers that mutate them, one      *)
(* action per await-delimited step of a handler, and the storage           *)
(* transport's failure modes (an error returned, an exception thrown, a    *)
(* write applied whose response is lost).                                  *)
(***************************************************************************)
EXTENDS Integers, Sequences, FiniteSets, TLC

VARIABLES
  transactions,    \* table transactions: row id -> row
  approval_links,  \* table approval_links: sequence of rows, id = index
  inbox_emails,    \* table inbox_emails: sequence of rows, id = index
  documents,       \* table documents: row id -> row
  email_outbox,    \* table email_outbox: sequence of rows, id = index
  provider_sent,   \* emails handed to the email provider, in order
  now,             \* the wall clock (Date.now()), in ticks of 24 hours
  faults,          \* transport faults the behaviour may still contain
  env,             \* process environment: email configuration present?
  req              \* in-flight requests: request id -> handler frame

vars == <<transactions, approval_links, inbox_emails, documents, email_outbox,
          provider_sent, now, faults, env, req>>

----------------------------------------------------------------------------
(* Bounds of the model *)

MaxTime == 2
\* transport faults a behaviour may contain, per specification
ApproveFaults == 1
InboundFaults == 1
RetryFaults == 3
WorkflowFaults == 1

(* Program constants *)

\* 24 hours (one clock tick): expiry of an approval link
LinkTTL == 1
\* attempts of insertWithRetry / updateDocumentWithRetry / updateTransactionWithRetry
RetryAttempts == 3
\* attempts of retry() in the inbound and intake routes
RetryFnAttempts == 4

----------------------------------------------------------------------------
(* Values *)

Null == "null"

\* a timestamp column that is NULL (timestamps are clock readings >= 0)
NoTime == -1
IsSet(t) == t # NoTime

\* row ids in the order the store hands them out
TxIdSeq == <<"t1", "t2", "t3">>
TxIds == {TxIdSeq[i] : i \in DOMAIN TxIdSeq}
ReqIds == {"r1", "r2"}
DocIds == {"d1", "d2"}
Users == {"u1"}
\* crypto.randomBytes(24): the n-th token drawn is TokenSeq[n], never repeated
TokenSeq == <<"k1", "k2", "k3">>
Tokens == {TokenSeq[i] : i \in DOMAIN TokenSeq}

\* JavaScript truthiness of a nullable string column
Truthy(v) == v # Null /\ v # ""

\* crypto sha256 hex digest: deterministic and collision-free on Tokens
sha256(s) == <<"sha256", s>>

WorkflowStatuses ==
  {"TRANSACTION_CREATED", "APS_EXTRACTED_AWAITING_EMAIL", "CLIENT_INTAKE_READY",
   "CLIENT_INTAKE_COMPLETED", "TITLE_SEARCH_RECEIVED", "REQUISITION_DRAFT_READY",
   "REQUISITION_DRAFT_READY_AWAITING_LAWYER_EMAIL",
   "REQUISITION_DRAFT_READY_AWAITING_EMAIL_CONFIG",
   "REQUISITION_DRAFT_READY_EMAIL_FAILED",
   "REQUISITION_SENT_TO_LAWYER", "REQUISITION_APPROVED",
   "REQUISITION_SENT_TO_VENDOR", "CLOSED"}

SideBranchStatuses ==
  {"REQUISITION_DRAFT_READY_AWAITING_LAWYER_EMAIL",
   "REQUISITION_DRAFT_READY_AWAITING_EMAIL_CONFIG",
   "REQUISITION_DRAFT_READY_EMAIL_FAILED"}

----------------------------------------------------------------------------
(* Storage transport: what one PostgREST call can do *)

\* ok: applied, response delivered.  err: rejected, { error } returned.
\* err_applied: applied server-side, response lost, { error } returned.
\* throw: fetch failed before the write, exception thrown.
\* throw_applied: applied server-side, exception thrown.
WriteOutcomes == {"ok", "err", "err_applied", "throw", "throw_applied"}
ReadOutcomes == {"ok", "err", "throw"}

Applied(o) == o \in {"ok", "err_applied", "throw_applied"}
Errored(o) == o \in {"err", "err_applied"}
Thrown(o) == o \in {"throw", "throw_applied"}

\* a fault is drawn only while the fault budget lasts
Allowed(o) == o = "ok" \/ faults > 0
Charge(o) == IF o = "ok" THEN faults ELSE faults - 1

----------------------------------------------------------------------------
(* Rows *)

\* a JSON column that is NULL; a stored payload is a non-empty tuple
NoData == <<>>
HasData(d) == d # NoData

\* incoming_docs = {}: one entry [key, at, source_inbox_email_id] per ticked key
NoDocs == {}

NoTx ==
  [id |-> Null, present |-> FALSE, user_id |-> Null, file_number |-> Null, status |-> Null,
   workflow_status |-> Null, client_name |-> Null, property_address |-> Null,
   closing_date |-> Null, property_type |-> Null, requires_status_cert |-> Null,
   client_email |-> Null, lawyer_email |-> Null, vendor_solicitor_email |-> Null,
   client_intake_data |-> NoData, client_intake_completed_at |-> NoTime,
   title_search_data |-> NoData, title_search_received_at |-> NoTime,
   requisition_letter_draft |-> Null, requisition_letter_draft_html |-> Null,
   requisition_letter_generated_at |-> NoTime, requisition_approved_at |-> NoTime,
   incoming_docs |-> NoDocs]

\* documents row; extracted_json is NoData or the saved APS payload
NoDoc ==
  [id |-> Null, present |-> FALSE, type |-> Null, transaction_id |-> Null,
   status |-> Null, extracted_json |-> NoData]

\* payload of POST /api/transactions/create
CreatePayload(userId, fileNumber) ==
  [NoTx EXCEPT !.present = TRUE, !.user_id = userId, !.file_number = fileNumber,
               !.status = "NEW",
               !.client_name = "TBD", !.property_address = "TBD",
               !.closing_date = "2099-12-31",
               !.workflow_status = "TRANSACTION_CREATED"]

\* UPDATE transactions SET <fields of upd> WHERE id = id (no row: no effect)
UpdateTx(txs, id, upd) ==
  IF id \in DOMAIN txs /\ txs[id].present
  THEN [txs EXCEPT ![id] =
          [f \in DOMAIN txs[id] |-> IF f \in DOMAIN upd THEN upd[f] ELSE txs[id][f]]]
  ELSE txs

\* SELECT ... WHERE id = id  .maybeSingle()
SelectTx(txs, id) ==
  IF id \in DOMAIN txs /\ txs[id].present THEN txs[id] ELSE NoTx

\* .select('<fields>'): the projection of a row
Pick(row, fields) == [f \in fields |-> row[f]]

UpdateRow(tbl, id, upd) ==
  IF id \in DOMAIN tbl
  THEN [tbl EXCEPT ![id] =
          [f \in DOMAIN tbl[id] |-> IF f \in DOMAIN upd THEN upd[f] ELSE tbl[id][f]]]
  ELSE tbl

----------------------------------------------------------------------------
(* Request frames *)

Idle == [op |-> "none", pc |-> "idle"]

Response(ok, code, message) == [ok |-> ok, code |-> code, message |-> message]

\* the handler of request r, whose frames are q, answers resp
ReturnIn(q, r, resp) == [q EXCEPT ![r] = [pc |-> "done", resp |-> resp] @@ @]

Return(r, resp) == ReturnIn(req, r, resp)

\* the requests that had already been answered when a request arrived
Answered == {r \in ReqIds : req[r].pc = "done"}

IsDone(r) == req[r].pc = "done"

----------------------------------------------------------------------------
(* The wall clock *)

Tick ==
  /\ now < MaxTime
  /\ now' = now + 1
  /\ UNCHANGED <<transactions, approval_links, inbox_emails, documents,
                 email_outbox, provider_sent, faults, env, req>>

tables == <<transactions, approval_links, inbox_emails, documents, email_outbox>>

----------------------------------------------------------------------------
(* POST /api/lawyer/approve *)

Unexpected(message) == Response(FALSE, 500, message)

\* no row of approval_links (maybeSingle() returned null)
NoLink ==
  [id |-> 0, transaction_id |-> Null, token_hash |-> sha256(Null),
   expires_at |-> NoTime, used_at |-> NoTime]

\* line 39: no such link, or the link was already consumed
LinkInvalid(link) == link = NoLink \/ IsSet(link.used_at)

\* line 43: new Date(link.expires_at).getTime() < Date.now()
LinkExpired(link, t) == link.expires_at < t

\* lines 28-33: .eq(transaction_id).eq(token_hash).maybeSingle()
MatchingLinks(links, transactionId, tokenHash) ==
  {i \in DOMAIN links : /\ links[i].transaction_id = transactionId
                        /\ links[i].token_hash = tokenHash}

\* line 50: the columns the handler selects
ApproveTxFields == {"id", "vendor_solicitor_email", "lawyer_email",
                    "requisition_letter_draft_html", "file_number"}

\* the HTML a request submits (one distinct document per request)
EditedHtml == [r \in ReqIds |-> IF r = "r1" THEN "edited_r1" ELSE "edited_r2"]

\* lines 12-26: parse the body, reject a missing field, hash the token
ApproveStart(r, txs, tokens) ==
  /\ req[r].pc = "idle"
  /\ \E transactionId \in txs \cup {Null}, token \in tokens \cup {Null} :
       LET editedHtml == EditedHtml[r]
           frame == [op |-> "approve", pc |-> "load_link",
                     transactionId |-> transactionId, token |-> token,
                     editedHtml |-> editedHtml, tokenHash |-> sha256(token),
                     link |-> NoLink, tx |-> Pick(NoTx, ApproveTxFields),
                     nowIso |-> NoTime,
                     checkedAt |-> NoTime, wrote |-> Null, marked |-> Null,
                     after |-> Answered]
       IN req' = IF transactionId = Null \/ token = Null
                 THEN [req EXCEPT ![r] =
                         [frame EXCEPT !.pc = "done"] @@
                         [resp |-> Response(FALSE, 400,
                                   "transactionId, token, editedHtml are required")]]
                 ELSE [req EXCEPT ![r] = frame]
  /\ UNCHANGED <<tables, provider_sent, now, faults, env>>

\* lines 28-45: load the link, reject an unknown, used or expired one
ApproveLoadLink(r) ==
  /\ req[r].op = "approve" /\ req[r].pc = "load_link"
  /\ \E o \in ReadOutcomes :
       /\ Allowed(o)
       /\ faults' = Charge(o)
       /\ LET f == req[r]
              matches == MatchingLinks(approval_links, f.transactionId, f.tokenHash)
              link == IF Cardinality(matches) = 1
                      THEN approval_links[CHOOSE i \in matches : TRUE]
                      ELSE NoLink
              linkErr == o = "err" \/ Cardinality(matches) > 1
          IN req' =
               IF Thrown(o)
               THEN Return(r, Unexpected("Unexpected error approving requisition"))
               ELSE IF linkErr
               THEN Return(r, Response(FALSE, 500, "Failed to load approval link"))
               ELSE IF LinkInvalid(link)
               THEN Return(r, Response(FALSE, 400,
                                       "Approval link is invalid or already used"))
               ELSE IF LinkExpired(link, now)
               THEN Return(r, Response(FALSE, 400, "Approval link expired"))
               ELSE [req EXCEPT ![r].pc = "load_tx", ![r].link = link,
                                ![r].checkedAt = now]
  /\ UNCHANGED <<tables, provider_sent, now, env>>

\* lines 47-63: load the transaction and its vendor solicitor email
ApproveLoadTx(r) ==
  /\ req[r].op = "approve" /\ req[r].pc = "load_tx"
  /\ \E o \in ReadOutcomes :
       /\ Allowed(o)
       /\ faults' = Charge(o)
       /\ LET tx == SelectTx(transactions, req[r].transactionId)
          IN req' =
               IF Thrown(o)
               THEN Return(r, Unexpected("Unexpected error approving requisition"))
               ELSE IF o = "err" \/ tx = NoTx
               THEN Return(r, Response(FALSE, 404, "Transaction not found"))
               ELSE IF ~Truthy(tx.vendor_solicitor_email)
               THEN Return(r, Response(FALSE, 400,
                                "Vendor solicitor email missing on transaction"))
               ELSE [req EXCEPT ![r].pc = "update_tx",
                                ![r].tx = Pick(tx, ApproveTxFields)]
  /\ UNCHANGED <<tables, provider_sent, now, env>>

\* lines 68-75: the approval write
ApprovalUpdate(editedHtml, t) ==
  [requisition_letter_draft_html |-> editedHtml,
   requisition_approved_at |-> t,
   workflow_status |-> "REQUISITION_APPROVED"]

\* a handler that does not read updErr
AfterApprovalWriteUnchecked(o) == "mark_used"

\* lines 77-79: where the handler goes after the approval write returned
AfterApprovalWrite(o) == IF Errored(o) THEN "done" ELSE "mark_used"

\* lines 65-79: persist the edited HTML and mark the transaction approved
ApproveUpdateTx(r) ==
  /\ req[r].op = "approve" /\ req[r].pc = "update_tx"
  /\ \E o \in WriteOutcomes :
       /\ Allowed(o)
       /\ faults' = Charge(o)
       /\ transactions' =
            IF Applied(o)
            THEN UpdateTx(transactions, req[r].transactionId,
                          ApprovalUpdate(req[r].editedHtml, now))
            ELSE transactions
       /\ LET q == [req EXCEPT ![r].nowIso = now, ![r].wrote = o]
          IN req' =
               IF Thrown(o)
               THEN ReturnIn(q, r, Unexpected("Unexpected error approving requisition"))
               ELSE IF AfterApprovalWrite(o) = "done"
               THEN ReturnIn(q, r, Response(FALSE, 500, "Failed to save approval"))
               ELSE [q EXCEPT ![r].pc = AfterApprovalWrite(o)]
  /\ UNCHANGED <<approval_links, inbox_emails, documents, email_outbox,
                 provider_sent, now, env>>

\* lines 81-84: consume the link; the write's error is not read
ApproveMarkUsed(r) ==
  /\ req[r].op = "approve" /\ req[r].pc = "mark_used"
  /\ \E o \in WriteOutcomes :
       /\ Allowed(o)
       /\ faults' = Charge(o)
       /\ approval_links' =
            IF Applied(o)
            THEN UpdateRow(approval_links, req[r].link.id, [used_at |-> req[r].nowIso])
            ELSE approval_links
       /\ LET q == [req EXCEPT ![r].marked = o]
          IN req' =
               IF Thrown(o)
               THEN ReturnIn(q, r, Unexpected("Unexpected error approving requisition"))
               ELSE [q EXCEPT ![r].pc = "send_vendor"]
  /\ UNCHANGED <<transactions, inbox_emails, documents, email_outbox,
                 provider_sent, now, env>>

----------------------------------------------------------------------------
(* POST /api/email/send, also run in-line by the handlers that fetch it *)

\* resend.emails.send: delivered, { error } returned, or an exception
ProviderOutcomes == {"sent", "rejected", "throw"}
ProviderAllowed(o) == o = "sent" \/ faults > 0
ProviderCharge(o) == IF o = "sent" THEN faults ELSE faults - 1

OutboxRow(id, transactionId, kind, to, st) ==
  [id |-> id, transaction_id |-> transactionId, kind |-> kind, to_email |-> to,
   status |-> st, sent_at |-> NoTime, error |-> Null]

Mail(transactionId, kind, to) ==
  [transactionId |-> transactionId, kind |-> kind, to |-> to]

\* the frame of a handler that calls /api/email/send and resumes at ret
CallEmailSend(r, mail, ret) ==
  [req EXCEPT ![r] = [pc |-> "es_start", mail |-> mail, ret |-> ret,
                      mailOk |-> FALSE, outboxId |-> 0] @@ @]

\* the caller resumes (fetch resolved with res.ok = ok), or the request ends
EmailSendReturn(r, ok, code, message) ==
  IF req[r].ret = "done"
  THEN Return(r, Response(ok, code, message))
  ELSE [req EXCEPT ![r].pc = req[r].ret, ![r].mailOk = ok]

\* lines 14-34: required fields and email configuration
EmailSendStart(r) ==
  /\ req[r].pc = "es_start"
  /\ req' =
       IF ~Truthy(req[r].mail.kind) \/ ~Truthy(req[r].mail.to)
       THEN EmailSendReturn(r, FALSE, 400, "kind, to, subject, html are required")
       ELSE IF ~env.resend_api_key
       THEN EmailSendReturn(r, FALSE, 500, "Missing RESEND_API_KEY")
       ELSE IF ~env.resend_from_email
       THEN EmailSendReturn(r, FALSE, 500, "Missing RESEND_FROM_EMAIL")
       ELSE [req EXCEPT ![r].pc = "es_outbox"]
  /\ UNCHANGED <<tables, provider_sent, now, faults, env>>

\* lines 36-54: create the outbox row first (QUEUED)
EmailSendOutbox(r) ==
  /\ req[r].pc = "es_outbox"
  /\ \E o \in WriteOutcomes :
       /\ Allowed(o)
       /\ faults' = Charge(o)
       /\ LET id == Len(email_outbox) + 1
              m == req[r].mail
          IN /\ email_outbox' =
                  IF Applied(o)
                  THEN Append(email_outbox,
                              OutboxRow(id, m.transactionId, m.kind, m.to, "QUEUED"))
                  ELSE email_outbox
             /\ req' =
                  IF Thrown(o)
                  THEN EmailSendReturn(r, FALSE, 500, "Failed to send")
                  ELSE IF Errored(o)
                  THEN EmailSendReturn(r, FALSE, 500, "Failed to create outbox row")
                  ELSE [req EXCEPT ![r].pc = "es_provider", ![r].outboxId = id]
  /\ UNCHANGED <<transactions, approval_links, inbox_emails, documents,
                 provider_sent, now, env>>

\* lines 56-62: hand the email to the provider; its { error } is not read
EmailSendProvider(r) ==
  /\ req[r].pc = "es_provider"
  /\ \E o \in ProviderOutcomes :
       /\ ProviderAllowed(o)
       /\ faults' = ProviderCharge(o)
       /\ provider_sent' =
            IF o = "sent"
            THEN Append(provider_sent,
                        [kind |-> req[r].mail.kind, to |-> req[r].mail.to,
                         transactionId |-> req[r].mail.transactionId,
                         outboxId |-> req[r].outboxId, by |-> r])
            ELSE provider_sent
       /\ req' =
            IF o = "throw"
            THEN EmailSendReturn(r, FALSE, 500, "Failed to send")
            ELSE [req EXCEPT ![r].pc = "es_mark"]
  /\ UNCHANGED <<tables, now, env>>

\* lines 64-76: mark the outbox row SENT
EmailSendMark(r) ==
  /\ req[r].pc = "es_mark"
  /\ \E o \in WriteOutcomes :
       /\ Allowed(o)
       /\ faults' = Charge(o)
       /\ email_outbox' =
            IF Applied(o)
            THEN UpdateRow(email_outbox, req[r].outboxId,
                           [status |-> "SENT", sent_at |-> now, error |-> Null])
            ELSE email_outbox
       /\ req' =
            IF Thrown(o)
            THEN EmailSendReturn(r, FALSE, 500, "Failed to send")
            ELSE EmailSendReturn(r, TRUE, 200, "Sent")
  /\ UNCHANGED <<transactions, approval_links, inbox_emails, documents,
                 provider_sent, now, env>>

----------------------------------------------------------------------------
(* POST /api/automations/run, also run in-line by the handlers that fetch it *)

\* lines 131-143: the letter built from the transaction and the appended notes
BuildRequisitionText(tx) == "requisition_text"
BuildRequisitionHtml(tx) == "requisition_html"

\* a handler that regenerates whenever title-search data is present
ShouldGenerateAnyStatus(tx) == HasData(tx.title_search_data)

\* lines 94-97
ShouldGenerate(tx) ==
  /\ tx.workflow_status = "TITLE_SEARCH_RECEIVED"
  /\ HasData(tx.title_search_data)
  /\ ~Truthy(tx.requisition_letter_draft)

\* the frame of a handler that calls /api/automations/run and resumes at ret
CallAutomation(r, transactionId, ret) ==
  [req EXCEPT ![r] = [pc |-> "au_load", auTx |-> transactionId, auRet |-> ret,
                      auSnap |-> NoTx, auToken |-> Null, auOutbox |-> 0,
                      auOk |-> TRUE] @@ @]

\* the caller resumes (auOk records the response it does not read), or the
\* request ends with the route's response
AutomationReturn(r, ok, code, message) ==
  IF req[r].auRet = "done"
  THEN Return(r, Response(ok, code, message))
  ELSE [req EXCEPT ![r].pc = req[r].auRet, ![r].auOk = ok]

\* a direct POST { transactionId }
AutomationStart(r, txs) ==
  /\ req[r].pc = "idle"
  /\ Len(approval_links) < Len(TokenSeq)
  /\ \E t \in txs :
       req' = [req EXCEPT ![r] = [op |-> "automation", pc |-> "au_load", auTx |-> t,
                                  auRet |-> "done", auSnap |-> NoTx,
                                  auToken |-> Null, auOutbox |-> 0,
                                  after |-> Answered]]
  /\ UNCHANGED <<tables, provider_sent, now, faults, env>>

\* lines 75-107: load the transaction, decide whether a draft is due
AutomationLoad(r) ==
  /\ req[r].pc = "au_load"
  /\ \E o \in ReadOutcomes :
       /\ Allowed(o)
       /\ faults' = Charge(o)
       /\ LET tx == SelectTx(transactions, req[r].auTx)
          IN req' =
               IF Thrown(o)
               THEN AutomationReturn(r, FALSE, 500, "Unexpected error in automations/run")
               ELSE IF o = "err"
               THEN AutomationReturn(r, FALSE, 500, "Failed to load transaction")
               ELSE IF tx = NoTx
               THEN AutomationReturn(r, FALSE, 404, "Transaction not found")
               ELSE IF ~ShouldGenerate(tx)
               THEN AutomationReturn(r, TRUE, 200, "No automation needed")
               ELSE [req EXCEPT ![r].pc = "au_save", ![r].auSnap = tx]
  /\ UNCHANGED <<tables, provider_sent, now, env>>

\* lines 109-164: read the firm profile (no modelled table), build the letter,
\* save text and HTML with workflow_status = REQUISITION_DRAFT_READY
AutomationSaveDraft(r) ==
  /\ req[r].pc = "au_save"
  /\ \E o \in WriteOutcomes :
       /\ Allowed(o)
       /\ faults' = Charge(o)
       /\ transactions' =
            IF Applied(o)
            THEN UpdateTx(transactions, req[r].auSnap.id,
                   [requisition_letter_draft |-> BuildRequisitionText(req[r].auSnap),
                    requisition_letter_draft_html |-> BuildRequisitionHtml(req[r].auSnap),
                    requisition_letter_generated_at |-> now,
                    workflow_status |-> "REQUISITION_DRAFT_READY"])
            ELSE transactions
       /\ req' =
            IF Thrown(o)
            THEN AutomationReturn(r, FALSE, 500, "Unexpected error in automations/run")
            ELSE IF Errored(o)
            THEN AutomationReturn(r, FALSE, 500, "Failed to save requisition draft")
            ELSE [req EXCEPT ![r].pc = "au_link"]
  /\ UNCHANGED <<approval_links, inbox_emails, documents, email_outbox,
                 provider_sent, now, env>>

\* lines 186, 199: which branch follows the link insert
AfterLinkInsert(snap) ==
  IF ~env.resend_api_key \/ ~env.resend_from_email THEN "au_cfg"
  ELSE IF ~Truthy(snap.lawyer_email) THEN "au_nolawyer"
  ELSE "au_outbox"

\* lines 166-175: issue the approval link (token hashed, expiry 24 h);
\* the insert's result is not read
AutomationInsertLink(r) ==
  /\ req[r].pc = "au_link"
  /\ Len(approval_links) < Len(TokenSeq)
  /\ \E o \in WriteOutcomes :
       /\ Allowed(o)
       /\ faults' = Charge(o)
       /\ LET id == Len(approval_links) + 1
              token == TokenSeq[id]
          IN /\ approval_links' =
                  IF Applied(o)
                  THEN Append(approval_links,
                              [id |-> id, transaction_id |-> req[r].auTx,
                               token_hash |-> sha256(token),
                               expires_at |-> now + LinkTTL, used_at |-> NoTime])
                  ELSE approval_links
             /\ req' =
                  IF Thrown(o)
                  THEN AutomationReturn(r, FALSE, 500,
                                        "Unexpected error in automations/run")
                  ELSE [req EXCEPT ![r].pc = AfterLinkInsert(req[r].auSnap),
                                   ![r].auToken = token]
  /\ UNCHANGED <<transactions, inbox_emails, documents, email_outbox,
                 provider_sent, now, env>>

\* lines 186-197 and 199-210: no email configuration, or no lawyer email
AutomationAwaiting(r) ==
  /\ req[r].pc \in {"au_cfg", "au_nolawyer"}
  /\ \E o \in WriteOutcomes :
       /\ Allowed(o)
       /\ faults' = Charge(o)
       /\ transactions' =
            IF Applied(o)
            THEN UpdateTx(transactions, req[r].auTx,
                   [workflow_status |->
                      IF req[r].pc = "au_cfg"
                      THEN "REQUISITION_DRAFT_READY_AWAITING_EMAIL_CONFIG"
                      ELSE "REQUISITION_DRAFT_READY_AWAITING_LAWYER_EMAIL"])
            ELSE transactions
       /\ req' =
            IF Thrown(o)
            THEN AutomationReturn(r, FALSE, 500, "Unexpected error in automations/run")
            ELSE IF req[r].pc = "au_cfg"
            THEN AutomationReturn(r, TRUE, 200, "Draft generated; missing email config")
            ELSE AutomationReturn(r, TRUE, 200, "Draft generated; missing lawyer email")
  /\ UNCHANGED <<approval_links, inbox_emails, documents, email_outbox,
                 provider_sent, now, env>>

\* lines 219-233: the outbox row (QUEUED) for the lawyer-approval email; an
\* insert that returns an error or no id throws into the catch at 266
AutomationOutbox(r) ==
  /\ req[r].pc = "au_outbox"
  /\ \E o \in WriteOutcomes :
       /\ Allowed(o)
       /\ faults' = Charge(o)
       /\ LET id == Len(email_outbox) + 1
          IN /\ email_outbox' =
                  IF Applied(o)
                  THEN Append(email_outbox,
                              OutboxRow(id, req[r].auSnap.id, "LAWYER_APPROVAL",
                                        req[r].auSnap.lawyer_email, "QUEUED"))
                  ELSE email_outbox
             /\ req' =
                  IF o = "ok"
                  THEN [req EXCEPT ![r].pc = "au_send", ![r].auOutbox = id]
                  ELSE [req EXCEPT ![r].pc = "au_fail_outbox"]
  /\ UNCHANGED <<transactions, approval_links, inbox_emails, documents,
                 provider_sent, now, env>>

\* lines 235-243: hand the approval email to the provider
AutomationSend(r) ==
  /\ req[r].pc = "au_send"
  /\ \E o \in ProviderOutcomes :
       /\ ProviderAllowed(o)
       /\ faults' = ProviderCharge(o)
       /\ provider_sent' =
            IF o = "sent"
            THEN Append(provider_sent,
                        [kind |-> "LAWYER_APPROVAL", to |-> req[r].auSnap.lawyer_email,
                         transactionId |-> req[r].auSnap.id,
                         outboxId |-> req[r].auOutbox, by |-> r])
            ELSE provider_sent
       /\ req' = IF o = "throw"
                 THEN [req EXCEPT ![r].pc = "au_fail_outbox"]
                 ELSE [req EXCEPT ![r].pc = "au_mark_sent"]
  /\ UNCHANGED <<tables, now, env>>

\* lines 245-253: mark the outbox row SENT (result not read)
AutomationMarkSent(r) ==
  /\ req[r].pc = "au_mark_sent"
  /\ \E o \in WriteOutcomes :
       /\ Allowed(o)
       /\ faults' = Charge(o)
       /\ email_outbox' =
            IF Applied(o)
            THEN UpdateRow(email_outbox, req[r].auOutbox,
                           [status |-> "SENT", sent_at |-> now, error |-> Null])
            ELSE email_outbox
       /\ req' = IF Thrown(o)
                 THEN [req EXCEPT ![r].pc = "au_fail_outbox"]
                 ELSE [req EXCEPT ![r].pc = "au_set_sent"]
  /\ UNCHANGED <<transactions, approval_links, inbox_emails, documents,
                 provider_sent, now, env>>

\* lines 255-264: workflow_status = REQUISITION_SENT_TO_LAWYER
AutomationSetSent(r) ==
  /\ req[r].pc = "au_set_sent"
  /\ \E o \in WriteOutcomes :
       /\ Allowed(o)
       /\ faults' = Charge(o)
       /\ transactions' =
            IF Applied(o)
            THEN UpdateTx(transactions, req[r].auTx,
                          [workflow_status |-> "REQUISITION_SENT_TO_LAWYER"])
            ELSE transactions
       /\ req' =
            IF Thrown(o)
            THEN [req EXCEPT ![r].pc = "au_fail_outbox"]
            ELSE AutomationReturn(r, TRUE, 200,
                                  "Draft generated and lawyer email sent/queued")
  /\ UNCHANGED <<approval_links, inbox_emails, documents, email_outbox,
                 provider_sent, now, env>>

\* lines 268-275: UPDATE email_outbox SET status = FAILED
\*                WHERE transaction_id = tx.id AND kind = 'LAWYER_APPROVAL'
FailApprovalRows(rows, transactionId) ==
  [i \in DOMAIN rows |->
     IF rows[i].transaction_id = transactionId /\ rows[i].kind = "LAWYER_APPROVAL"
     THEN [rows[i] EXCEPT !.status = "FAILED", !.error = "email_error"]
     ELSE rows[i]]

\* lines 266-276: the catch marks outbox rows FAILED, swallowing any error
AutomationFailOutbox(r) ==
  /\ req[r].pc = "au_fail_outbox"
  /\ \E o \in WriteOutcomes :
       /\ Allowed(o)
       /\ faults' = Charge(o)
       /\ email_outbox' =
            IF Applied(o)
            THEN FailApprovalRows(email_outbox, req[r].auSnap.id)
            ELSE email_outbox
       /\ req' = [req EXCEPT ![r].pc = "au_set_failed"]
  /\ UNCHANGED <<transactions, approval_links, inbox_emails, documents,
                 provider_sent, now, env>>

\* lines 278-292: workflow_status = REQUISITION_DRAFT_READY_EMAIL_FAILED
AutomationSetFailed(r) ==
  /\ req[r].pc = "au_set_failed"
  /\ \E o \in WriteOutcomes :
       /\ Allowed(o)
       /\ faults' = Charge(o)
       /\ transactions' =
            IF Applied(o)
            THEN UpdateTx(transactions, req[r].auTx,
                          [workflow_status |-> "REQUISITION_DRAFT_READY_EMAIL_FAILED"])
            ELSE transactions
       /\ req' =
            IF Thrown(o)
            THEN AutomationReturn(r, FALSE, 500, "Unexpected error in automations/run")
            ELSE AutomationReturn(r, TRUE, 200, "Draft generated but lawyer email failed")
  /\ UNCHANGED <<approval_links, inbox_emails, documents, email_outbox,
                 provider_sent, now, env>>

\* the steps of the route after it was entered
AutomationSteps(r) ==
  \/ AutomationLoad(r)
  \/ AutomationSaveDraft(r)
  \/ AutomationInsertLink(r)
  \/ AutomationAwaiting(r)
  \/ AutomationOutbox(r)
  \/ AutomationSend(r)
  \/ AutomationMarkSent(r)
  \/ AutomationSetSent(r)
  \/ AutomationFailOutbox(r)
  \/ AutomationSetFailed(r)

----------------------------------------------------------------------------
(* POST /api/email/inbound: text helpers *)

\* Text is modelled by what the helpers look at.  A subject is a sequence of
\* tokens (maximal runs between word boundaries that the patterns can match);
\* an email also carries the lower-case phrases its subject and body contain
\* and the email addresses its body contains, in order.
FirmTokens == {"AIC-2025-000123", "aic-2025-000123", "AIC-2025-000124"}
DatedTokens == {"251220-9452", "251221-0007"}
DigitTokens == {"20251"}
EmailAddresses == {"lawyer@firm", "clerk@firm", "counsel@firm"}

\* the first token of subject that is in shape, or Null
FirstToken(subject, shape) ==
  LET hits == {i \in DOMAIN subject : subject[i] \in shape}
  IN IF hits = {} THEN Null
     ELSE subject[CHOOSE i \in hits : \A j \in hits : i <= j]

\* a matcher that prefers the dated pattern over the firm-prefixed one
extractFileNumberDatedFirst(subject) ==
  IF FirstToken(subject, DatedTokens) # Null THEN FirstToken(subject, DatedTokens)
  ELSE IF FirstToken(subject, FirmTokens) # Null THEN FirstToken(subject, FirmTokens)
  ELSE FirstToken(subject, DigitTokens)

\* lines 532-548: ordered pattern attempts, first match wins
extractFileNumber(subject) ==
  IF FirstToken(subject, FirmTokens) # Null THEN FirstToken(subject, FirmTokens)
  ELSE IF FirstToken(subject, DatedTokens) # Null THEN FirstToken(subject, DatedTokens)
  ELSE FirstToken(subject, DigitTokens)

\* lines 482-485
isEmail(s) == s \in EmailAddresses

\* lines 490-494: the first address in the body, or null
extractEmailFromText(bodyEmails) ==
  IF Len(bodyEmails) = 0 THEN Null ELSE bodyEmails[1]

\* lines 501-506: the sender first, the body as fallback
deriveLawyerEmail(fromEmail, bodyEmails) ==
  IF isEmail(fromEmail) THEN fromEmail
  ELSE IF isEmail(extractEmailFromText(bodyEmails))
       THEN extractEmailFromText(bodyEmails)
       ELSE Null

Hit(cond, key) == IF cond THEN {key} ELSE {}

\* lines 656-730: t is the set of phrases that subject + body contain
detectIncomingDocs(t) ==
  LET has(p) == p \in t
  IN Hit(has("reply to requisition") \/ has("reply to req")
           \/ has("replies to requisition"), "reply_to_requisitions")
     \cup Hit(has("statement of adjustments") \/ (has("soa") /\ has("adjust")),
              "statement_of_adjustments")
     \cup Hit(has("closing document") \/ has("closing package")
                \/ has("closing documents"), "closing_documents")
     \cup Hit(has("hst") \/ has("harmonized sales tax"), "hst")
     \cup Hit(has("statutory declaration")
                /\ (has("resident") \/ has("residency") \/ has("non-resident")
                      \/ has("canada")), "stat_dec_residency")
     \cup Hit(has("statutory declaration")
                /\ (has("spousal") \/ has("spouse") \/ has("marital")),
              "stat_dec_spousal")
     \cup Hit(has("undertaking") \/ has("undertakings"), "undertakings")
     \cup Hit(has("uff") /\ has("warranty"), "uff_warranty")
     \cup Hit(has("bill of sale"), "bill_of_sale")
     \cup Hit(has("document registration agreement")
                \/ (has("registration") /\ has("agreement")),
              "doc_registration_agreement")
     \cup Hit(has("signature required") \/ has("sign here") \/ has("please sign"),
              "signature_required")
     \cup Hit(has("lawyer's undertaking") /\ (has("vendor mortgage") \/ has("mortgage")),
              "lawyers_undertaking_vendor_mortgage")
     \cup Hit(has("payout statement") /\ has("mortgage"), "payout_statement_mortgage")

\* lines 872-880: incoming[key] = { received, at, source_inbox_email_id, .. }
TickDocs(incoming, keys, at, inboxId) ==
  {d \in incoming : d.key \notin keys}
    \cup {[key |-> k, at |-> at, source_inbox_email_id |-> inboxId] : k \in keys}

InboundEmail(id, subject, fromEmail, bodyEmails, phrases) ==
  [provider_message_id |-> id, subject |-> subject, from_email |-> fromEmail,
   body_emails |-> bodyEmails, phrases |-> phrases]

\* lines 466-481: retry() runs fn again after a thrown exception, 4 attempts
RetryAgain(attempt) == attempt + 1 < RetryFnAttempts

\* the row with transactions.file_number = fileNumber  (.maybeSingle())
SelectTxByFileNumber(txs, fileNumber) ==
  LET hits == {t \in DOMAIN txs : txs[t].present /\ txs[t].file_number = fileNumber}
  IN IF Cardinality(hits) = 1 THEN txs[CHOOSE t \in hits : TRUE] ELSE NoTx

----------------------------------------------------------------------------
(* POST /api/email/inbound *)

InboxRow(id, e) ==
  [id |-> id, provider_message_id |-> e.provider_message_id,
   from_email |-> e.from_email, subject |-> e.subject, status |-> "RECEIVED",
   error |-> Null, transaction_id |-> Null]

\* unique index on inbox_emails.provider_message_id (NULLs are distinct)
UniqueViolation(rows, providerMessageId) ==
  /\ providerMessageId # Null
  /\ \E i \in DOMAIN rows : rows[i].provider_message_id = providerMessageId

\* what the insert answers: the index rejects a second row with the same id
InsertResult(rows, providerMessageId, o) ==
  IF UniqueViolation(rows, providerMessageId) /\ o = "ok" THEN "duplicate" ELSE o

\* a handler that does not recognise the duplicate-key error
IsDuplicateErrorNever(res) == FALSE

\* lines 799-802: insertError.message contains 'duplicate'
IsDuplicateError(res) == res = "duplicate"

\* a handler that goes on after a failed insert
InsertFailedNever(res) == FALSE

\* line 806: insertError || !inserted
InsertFailed(res) == res # "ok"

HandlerFailed == Response(FALSE, 500, "Inbound email handler failed")

\* lines 733-775: the webhook payload, normalised
InboundStart(r, emails) ==
  /\ req[r].pc = "idle"
  /\ \E e \in emails :
       req' = [req EXCEPT ![r] =
                 [op |-> "inbound", pc |-> "ib_insert", email |-> e, attempt |-> 0,
                  inserted |-> 0, fileNumber |-> Null, txId |-> Null,
                  nowIso |-> NoTime, incoming |-> NoDocs,
                  derivedLawyerEmail |-> Null, errMsg |-> Null,
                  insertResult |-> Null, mutated |-> FALSE, after |-> Answered]]
  /\ UNCHANGED <<tables, provider_sent, now, faults, env>>

\* lines 777-828: insert the inbox row first (RECEIVED), inside retry()
InboundInsert(r) ==
  /\ req[r].pc = "ib_insert"
  /\ \E o \in WriteOutcomes :
       /\ Allowed(o)
       /\ UniqueViolation(inbox_emails, req[r].email.provider_message_id)
            => ~Applied(o) \/ o = "ok"
       /\ faults' = Charge(o)
       /\ LET id == Len(inbox_emails) + 1
              res == InsertResult(inbox_emails, req[r].email.provider_message_id, o)
              fileNumber == extractFileNumber(req[r].email.subject)
              q == [req EXCEPT ![r].insertResult = res]
          IN /\ inbox_emails' =
                  IF Applied(o) /\ res # "duplicate"
                  THEN Append(inbox_emails, InboxRow(id, req[r].email))
                  ELSE inbox_emails
             /\ req' =
                  IF Thrown(o)
                  THEN IF RetryAgain(req[r].attempt)
                       THEN [req EXCEPT ![r].attempt = @ + 1]
                       ELSE ReturnIn(q, r, HandlerFailed)
                  ELSE IF IsDuplicateError(res)
                  THEN ReturnIn(q, r, Response(TRUE, 200, "Duplicate ignored"))
                  ELSE IF InsertFailed(res)
                  THEN ReturnIn(q, r, Response(FALSE, 500, "Failed to save inbound email"))
                  ELSE [q EXCEPT ![r].inserted = id, ![r].attempt = 0,
                                 ![r].fileNumber = fileNumber,
                                 ![r].pc = IF fileNumber = Null
                                           THEN "ib_unassigned" ELSE "ib_lookup"]
  /\ UNCHANGED <<transactions, approval_links, documents, email_outbox,
                 provider_sent, now, env>>

\* lines 830-849: match the transaction by file number
InboundLookup(r) ==
  /\ req[r].pc = "ib_lookup"
  /\ \E o \in ReadOutcomes :
       /\ Allowed(o)
       /\ faults' = Charge(o)
       /\ LET tx == SelectTxByFileNumber(transactions, req[r].fileNumber)
          IN req' =
               IF Thrown(o) THEN Return(r, HandlerFailed)
               ELSE IF o = "err" \/ tx = NoTx
               THEN [req EXCEPT ![r].pc = "ib_unassigned"]
               ELSE [req EXCEPT ![r].pc = "ib_matched", ![r].txId = tx.id]
  /\ UNCHANGED <<tables, provider_sent, now, env>>

\* lines 816-828 and 836-849: no file number, or no transaction with it
InboundUnassigned(r) ==
  /\ req[r].pc = "ib_unassigned"
  /\ \E o \in WriteOutcomes :
       /\ Allowed(o)
       /\ faults' = Charge(o)
       /\ inbox_emails' =
            IF Applied(o)
            THEN UpdateRow(inbox_emails, req[r].inserted, [status |-> "UNASSIGNED"])
            ELSE inbox_emails
       /\ req' =
            IF Thrown(o) THEN Return(r, HandlerFailed)
            ELSE IF req[r].fileNumber = Null
            THEN Return(r, Response(TRUE, 200,
                                    "Inbound email saved (no file number found)"))
            ELSE Return(r, Response(TRUE, 200,
                                    "Inbound email saved (no matching transaction)"))
  /\ UNCHANGED <<transactions, approval_links, documents, email_outbox,
                 provider_sent, now, env>>

\* lines 851-858: MATCHED with the back-reference; then the keyword classifier
InboundMatched(r) ==
  /\ req[r].pc = "ib_matched"
  /\ \E o \in WriteOutcomes :
       /\ Allowed(o)
       /\ faults' = Charge(o)
       /\ inbox_emails' =
            IF Applied(o)
            THEN UpdateRow(inbox_emails, req[r].inserted,
                           [status |-> "MATCHED", transaction_id |-> req[r].txId])
            ELSE inbox_emails
       /\ req' =
            IF Thrown(o) THEN Return(r, HandlerFailed)
            ELSE [req EXCEPT ![r].pc =
                    IF detectIncomingDocs(req[r].email.phrases) # {}
                    THEN "ib_docs_read" ELSE "ib_extract"]
  /\ UNCHANGED <<transactions, approval_links, documents, email_outbox,
                 provider_sent, now, env>>

\* lines 859-880: load incoming_docs (a failed read yields {}), tick the keys
InboundDocsRead(r) ==
  /\ req[r].pc = "ib_docs_read"
  /\ \E o \in ReadOutcomes :
       /\ Allowed(o)
       /\ faults' = Charge(o)
       /\ LET existing == IF o = "ok"
                          THEN SelectTx(transactions, req[r].txId).incoming_docs
                          ELSE NoDocs
          IN req' =
               IF Thrown(o) THEN Return(r, HandlerFailed)
               ELSE [req EXCEPT ![r].pc = "ib_docs_write",
                                ![r].incoming =
                                  TickDocs(existing,
                                           detectIncomingDocs(req[r].email.phrases),
                                           now, req[r].inserted)]
  /\ UNCHANGED <<tables, provider_sent, now, env>>

\* lines 882-888: write incoming_docs back (result not read)
InboundDocsWrite(r) ==
  /\ req[r].pc = "ib_docs_write"
  /\ \E o \in WriteOutcomes :
       /\ Allowed(o)
       /\ faults' = Charge(o)
       /\ transactions' =
            IF Applied(o)
            THEN UpdateTx(transactions, req[r].txId, [incoming_docs |-> req[r].incoming])
            ELSE transactions
       /\ LET q == [req EXCEPT ![r].mutated = @ \/ Applied(o)]
          IN req' = IF Thrown(o) THEN ReturnIn(q, r, HandlerFailed)
                    ELSE [q EXCEPT ![r].pc = "ib_extract"]
  /\ UNCHANGED <<approval_links, inbox_emails, documents, email_outbox,
                 provider_sent, now, env>>

\* the two LLM passes (lines 550-635) answer, or throw (API error, bad JSON)
ExtractionOutcomes == {"ok", "throw"}

\* lines 891-898: both extraction passes, then nowIso and the derived email
InboundExtract(r) ==
  /\ req[r].pc = "ib_extract"
  /\ \E o \in ExtractionOutcomes :
       /\ Allowed(o)
       /\ faults' = Charge(o)
       /\ LET derived == deriveLawyerEmail(req[r].email.from_email,
                                           req[r].email.body_emails)
          IN req' =
               IF o = "throw" THEN Return(r, HandlerFailed)
               ELSE [req EXCEPT ![r].nowIso = now,
                                ![r].derivedLawyerEmail = derived,
                                ![r].pc = IF derived # Null
                                          THEN "ib_lawyer_read" ELSE "ib_step_a"]
  /\ UNCHANGED <<tables, provider_sent, now, env>>

\* lines 902-910: is a lawyer email already set? (a failed read says no)
InboundLawyerRead(r) ==
  /\ req[r].pc = "ib_lawyer_read"
  /\ \E o \in ReadOutcomes :
       /\ Allowed(o)
       /\ faults' = Charge(o)
       /\ LET alreadySet == o = "ok"
                            /\ Truthy(SelectTx(transactions, req[r].txId).lawyer_email)
          IN req' =
               IF Thrown(o) THEN Return(r, HandlerFailed)
               ELSE [req EXCEPT ![r].pc = IF alreadySet
                                          THEN "ib_step_a" ELSE "ib_lawyer_write"]
  /\ UNCHANGED <<tables, provider_sent, now, env>>

\* lines 911-914: set lawyer_email (result not read)
InboundLawyerWrite(r) ==
  /\ req[r].pc = "ib_lawyer_write"
  /\ \E o \in WriteOutcomes :
       /\ Allowed(o)
       /\ faults' = Charge(o)
       /\ transactions' =
            IF Applied(o)
            THEN UpdateTx(transactions, req[r].txId,
                          [lawyer_email |-> req[r].derivedLawyerEmail])
            ELSE transactions
       /\ LET q == [req EXCEPT ![r].mutated = @ \/ Applied(o)]
          IN req' = IF Thrown(o) THEN ReturnIn(q, r, HandlerFailed)
                    ELSE [q EXCEPT ![r].pc = "ib_step_a"]
  /\ UNCHANGED <<approval_links, inbox_emails, documents, email_outbox,
                 provider_sent, now, env>>

\* lines 920-943: step A inside retry(): received-at stamp and workflow_status
InboundStepA(r) ==
  /\ req[r].pc = "ib_step_a"
  /\ \E o \in WriteOutcomes :
       /\ Allowed(o)
       /\ faults' = Charge(o)
       /\ transactions' =
            IF Applied(o)
            THEN UpdateTx(transactions, req[r].txId,
                          [title_search_received_at |-> req[r].nowIso,
                           workflow_status |-> "TITLE_SEARCH_RECEIVED"])
            ELSE transactions
       /\ LET q == [req EXCEPT ![r].mutated = @ \/ Applied(o)]
          IN req' =
               IF Thrown(o)
               THEN IF RetryAgain(req[r].attempt)
                    THEN [q EXCEPT ![r].attempt = @ + 1]
                    ELSE ReturnIn(q, r, HandlerFailed)
               ELSE IF Errored(o)
               THEN [q EXCEPT ![r].pc = "ib_error", ![r].attempt = 0,
                              ![r].errMsg =
                                "Matched email but failed to update transaction (step A)"]
               ELSE [q EXCEPT ![r].pc = "ib_step_b", ![r].attempt = 0]
  /\ UNCHANGED <<approval_links, inbox_emails, documents, email_outbox,
                 provider_sent, now, env>>

\* lines 946-954: facts, lawyer additions and provenance
TitleSearchData(inboxId, derivedLawyerEmail, at) ==
  <<"title_facts", inboxId, derivedLawyerEmail, at>>

\* lines 957-982: step B inside retry(): title_search_data
InboundStepB(r) ==
  /\ req[r].pc = "ib_step_b"
  /\ \E o \in WriteOutcomes :
       /\ Allowed(o)
       /\ faults' = Charge(o)
       /\ transactions' =
            IF Applied(o)
            THEN UpdateTx(transactions, req[r].txId,
                          [title_search_data |->
                             TitleSearchData(req[r].inserted,
                                             req[r].derivedLawyerEmail, req[r].nowIso)])
            ELSE transactions
       /\ LET q == [req EXCEPT ![r].mutated = @ \/ Applied(o)]
          IN req' =
               IF Thrown(o)
               THEN IF RetryAgain(req[r].attempt)
                    THEN [q EXCEPT ![r].attempt = @ + 1]
                    ELSE ReturnIn(q, r, HandlerFailed)
               ELSE IF Errored(o)
               THEN [q EXCEPT ![r].pc = "ib_error", ![r].attempt = 0,
                              ![r].errMsg =
                                "Matched email but failed to update transaction (step B)"]
               ELSE [q EXCEPT ![r].pc = "ib_verify", ![r].attempt = 0]
  /\ UNCHANGED <<approval_links, inbox_emails, documents, email_outbox,
                 provider_sent, now, env>>

\* a read-back that accepts whatever it read
looksSavedAlways(verifyTx) == TRUE

\* lines 991-994
looksSaved(verifyTx) ==
  /\ verifyTx # NoTx
  /\ IsSet(verifyTx.title_search_received_at)
  /\ HasData(verifyTx.title_search_data)
  /\ verifyTx.workflow_status = "TITLE_SEARCH_RECEIVED"

\* lines 984-1025: read back; then the automation is fetched when
\* APP_PUBLIC_URL is set, and its outcome is ignored
InboundVerify(r) ==
  /\ req[r].pc = "ib_verify"
  /\ \E o \in ReadOutcomes :
       /\ Allowed(o)
       /\ faults' = Charge(o)
       /\ LET verifyTx == IF o = "ok" THEN SelectTx(transactions, req[r].txId) ELSE NoTx
          IN req' =
               IF Thrown(o) THEN Return(r, HandlerFailed)
               ELSE IF ~looksSaved(verifyTx)
               THEN [req EXCEPT ![r].pc = "ib_error",
                                ![r].errMsg =
                                  "Inbound matched but verification failed (possible transient DB write issue)"]
               ELSE IF env.app_public_url
               THEN CallAutomation(r, req[r].txId, "ib_processed")
               ELSE [req EXCEPT ![r].pc = "ib_processed"]
  /\ UNCHANGED <<tables, provider_sent, now, env>>

\* lines 934-942, 967-981, 997-1010: record the error on the inbox row
InboundError(r) ==
  /\ req[r].pc = "ib_error"
  /\ \E o \in WriteOutcomes :
       /\ Allowed(o)
       /\ faults' = Charge(o)
       /\ inbox_emails' =
            IF Applied(o)
            THEN UpdateRow(inbox_emails, req[r].inserted,
                           [status |-> "ERROR", error |-> req[r].errMsg])
            ELSE inbox_emails
       /\ req' = IF Thrown(o) THEN Return(r, HandlerFailed)
                 ELSE Return(r, Response(FALSE, 500, req[r].errMsg))
  /\ UNCHANGED <<transactions, approval_links, documents, email_outbox,
                 provider_sent, now, env>>

\* lines 1027-1037: PROCESSED
InboundProcessed(r) ==
  /\ req[r].pc = "ib_processed"
  /\ \E o \in WriteOutcomes :
       /\ Allowed(o)
       /\ faults' = Charge(o)
       /\ inbox_emails' =
            IF Applied(o)
            THEN UpdateRow(inbox_emails, req[r].inserted, [status |-> "PROCESSED"])
            ELSE inbox_emails
       /\ req' = IF Thrown(o) THEN Return(r, HandlerFailed)
                 ELSE Return(r, Response(TRUE, 200, "Inbound email processed"))
  /\ UNCHANGED <<transactions, approval_links, documents, email_outbox,
                 provider_sent, now, env>>

\* the steps of the route after it was entered
InboundSteps(r) ==
  \/ InboundInsert(r)
  \/ InboundLookup(r)
  \/ InboundUnassigned(r)
  \/ InboundMatched(r)
  \/ InboundDocsRead(r)
  \/ InboundDocsWrite(r)
  \/ InboundExtract(r)
  \/ InboundLawyerRead(r)
  \/ InboundLawyerWrite(r)
  \/ InboundStepA(r)
  \/ InboundStepB(r)
  \/ InboundVerify(r)
  \/ InboundError(r)
  \/ InboundProcessed(r)

----------------------------------------------------------------------------
(* POST /api/transactions/create *)

\* lines 402-409: yymmdd-rand4; two requests of one day can draw the same
FileNumbers == {"251220-9452", "251220-1000", "251220-2000"}

\* unique index on transactions.file_number
FileNumberTaken(txs, fileNumber) ==
  \E t \in DOMAIN txs : txs[t].present /\ txs[t].file_number = fileNumber

\* what the insert answers: the index rejects a second row with the number
TxInsertResult(txs, fileNumber, o) ==
  IF FileNumberTaken(txs, fileNumber) /\ o = "ok" THEN "duplicate" ELSE o

\* a store that writes every inserted row over the first one
NextTxIdFirst(txs) == TxIdSeq[1]

\* the id the store gives the next row
NextTxId(txs) ==
  TxIdSeq[CHOOSE i \in DOMAIN TxIdSeq :
            /\ ~txs[TxIdSeq[i]].present
            /\ \A j \in DOMAIN TxIdSeq : ~txs[TxIdSeq[j]].present => i <= j]

\* line 442-461
CreateStart(r) ==
  /\ req[r].pc = "idle"
  /\ \E u \in Users \cup {Null}, f \in FileNumbers :
       req' = IF ~Truthy(u)
              THEN [req EXCEPT ![r] = [op |-> "create", pc |-> "done", userId |-> u,
                                       fileNumber |-> Null, attempt |-> 0,
                                       hist |-> <<>>, after |-> Answered,
                                       resp |-> Response(FALSE, 400, "userId is required")]]
              ELSE [req EXCEPT ![r] = [op |-> "create", pc |-> "cr_insert", userId |-> u,
                                       fileNumber |-> f, attempt |-> 0,
                                       hist |-> <<>>, after |-> Answered]]
  /\ UNCHANGED <<tables, provider_sent, now, faults, env>>

\* a loop that stops after its first attempt
MoreAttemptsNever(attempt) == FALSE

\* lines 418, 81, 118: for (let i = 0; i < attempts; i++)
MoreAttempts(attempt) == attempt + 1 < RetryAttempts

\* lines 415-435 and 464-468: one attempt of insertWithRetry
CreateInsert(r) ==
  /\ req[r].pc = "cr_insert"
  /\ \E t \in TxIds : ~transactions[t].present
  /\ \E o \in WriteOutcomes :
       /\ Allowed(o)
       /\ FileNumberTaken(transactions, req[r].fileNumber) => ~Applied(o) \/ o = "ok"
       /\ faults' = Charge(o)
       /\ LET res == TxInsertResult(transactions, req[r].fileNumber, o)
              id == NextTxId(transactions)
              q == [req EXCEPT ![r].hist = Append(@, res)]
          IN /\ transactions' =
                  IF Applied(o) /\ res # "duplicate"
                  THEN [transactions EXCEPT ![id] =
                          [CreatePayload(req[r].userId, req[r].fileNumber)
                             EXCEPT !.id = id]]
                  ELSE transactions
             /\ req' =
                  IF Thrown(o)
                  THEN ReturnIn(q, r, Response(FALSE, 500,
                                               "Unexpected error creating transaction"))
                  ELSE IF res = "ok"
                  THEN ReturnIn(q, r, Response(TRUE, 200, "Created"))
                  ELSE IF MoreAttempts(req[r].attempt)
                  THEN [q EXCEPT ![r].attempt = @ + 1]
                  ELSE [q EXCEPT ![r].pc = "cr_verify"]
  /\ UNCHANGED <<approval_links, inbox_emails, documents, email_outbox,
                 provider_sent, now, env>>

\* a verification that never finds the row
CreateVerifiedNever(verify, o) == FALSE

\* line 478: verify && !verifyErr
CreateVerified(verify, o) == verify # NoTx /\ o = "ok"

\* lines 470-493: look the row up by file number
CreateVerify(r) ==
  /\ req[r].pc = "cr_verify"
  /\ \E o \in ReadOutcomes :
       /\ Allowed(o)
       /\ faults' = Charge(o)
       /\ LET verify == SelectTxByFileNumber(transactions, req[r].fileNumber)
              q == [req EXCEPT ![r] = [verify |-> verify, verifyRead |-> o] @@ @]
          IN req' =
               IF Thrown(o)
               THEN ReturnIn(q, r, Response(FALSE, 500,
                                            "Unexpected error creating transaction"))
               ELSE IF CreateVerified(verify, o)
               THEN ReturnIn(q, r, Response(TRUE, 200,
                                            "Created (verified after transient error)"))
               ELSE ReturnIn(q, r, Response(FALSE, 500, "Failed to create transaction"))
  /\ UNCHANGED <<tables, provider_sent, now, env>>

Create(r) ==
  \/ CreateStart(r)
  \/ CreateInsert(r)
  \/ CreateVerify(r)

----------------------------------------------------------------------------
(* POST /api/documents/extract-aps *)

Aps(purchaser, address, completion) ==
  [purchaser |-> purchaser, property_address |-> address,
   completion_date |-> completion]

\* the extraction results the LLM pass can yield (validateAPSData applied)
ApsResults ==
  {Aps("Alice Buyer", "12 King St", "2026-01-15"),
   Aps(Null, "Unit 5 - 100 Bay St", Null)}

\* the JSON stored in documents.extracted_json
ApsJson(aps) == <<"aps", aps.purchaser, aps.property_address, aps.completion_date>>

CondoAddresses == {"Unit 5 - 100 Bay St"}

\* lines 29-41
looksLikeCondoFromAddress(addr) == Truthy(addr) /\ addr \in CondoAddresses

\* a ?? b
Coalesce(a, b) == IF a # Null THEN a ELSE b

\* an update that sets CLIENT_INTAKE_READY whether or not an email is on file
TxUpdateIntakeReady(aps, tx) ==
  [client_name |-> Coalesce(aps.purchaser, tx.client_name),
   property_address |-> Coalesce(aps.property_address, tx.property_address),
   closing_date |-> Coalesce(aps.completion_date, tx.closing_date),
   property_type |-> IF looksLikeCondoFromAddress(aps.property_address)
                     THEN "CONDO" ELSE "FREEHOLD",
   requires_status_cert |->
     IF looksLikeCondoFromAddress(aps.property_address) THEN "true" ELSE "false",
   workflow_status |-> "CLIENT_INTAKE_READY"]

\* lines 271-278; tx is the row read at 263-267, NoTx when the read failed
TxUpdate(aps, tx) ==
  [client_name |-> Coalesce(aps.purchaser, tx.client_name),
   property_address |-> Coalesce(aps.property_address, tx.property_address),
   closing_date |-> Coalesce(aps.completion_date, tx.closing_date),
   property_type |-> IF looksLikeCondoFromAddress(aps.property_address)
                     THEN "CONDO" ELSE "FREEHOLD",
   requires_status_cert |->
     IF looksLikeCondoFromAddress(aps.property_address) THEN "true" ELSE "false",
   workflow_status |-> IF Truthy(tx.client_email)
                       THEN "CLIENT_INTAKE_READY"
                       ELSE "APS_EXTRACTED_AWAITING_EMAIL"]

\* does the row carry every field of the update?
Carries(row, upd) == row # NoTx /\ \A f \in DOMAIN upd : row[f] = upd[f]

SaveResult(ok, verified) == [ok |-> ok, verified |-> verified]
NotSaved == SaveResult(FALSE, FALSE)

ExtractFailed(message) == Response(FALSE, 500, message)

\* lines 143-150
ExtractStart(r, docs) ==
  /\ req[r].pc = "idle"
  /\ \E d \in docs :
       req' = [req EXCEPT ![r] =
                 [op |-> "extract", pc |-> "ex_load", documentId |-> d, doc |-> NoDoc,
                  aps |-> Aps(Null, Null, Null), attempt |-> 0, hist |-> <<>>,
                  docSave |-> NotSaved, docAfter |-> NoDoc, docRead |-> NoDoc,
                  txSnap |-> NoTx, txUpdate |-> <<>>, txSave |-> NotSaved,
                  txHist |-> <<>>, txRead |-> NoTx, after |-> Answered]]
  /\ UNCHANGED <<tables, provider_sent, now, faults, env>>

\* a type check that lets every document through
IsApsAlways(doc) == TRUE

\* line 168
IsAps(doc) == doc.type = "APS"

\* lines 152-173: load the document, check its type
ExtractLoad(r) ==
  /\ req[r].pc = "ex_load"
  /\ \E o \in ReadOutcomes :
       /\ Allowed(o)
       /\ faults' = Charge(o)
       /\ LET doc == documents[req[r].documentId]
          IN req' =
               IF Thrown(o)
               THEN Return(r, ExtractFailed("Unexpected error during APS extraction"))
               ELSE IF o = "err"
               THEN Return(r, ExtractFailed("Failed to load document from Supabase"))
               ELSE IF ~doc.present
               THEN Return(r, Response(FALSE, 404, "Document not found"))
               ELSE IF ~IsAps(doc)
               THEN Return(r, Response(FALSE, 400, "Document type must be APS"))
               ELSE [req EXCEPT ![r].pc = "ex_llm", ![r].doc = doc]
  /\ UNCHANGED <<tables, provider_sent, now, env>>

\* what download, text extraction and the LLM pass can end in
ExtractionResults ==
  {"ok", "Failed to fetch APS PDF from storage", "Unable to extract text from APS PDF",
   "Failed to parse APS extraction result as JSON", "APS JSON failed schema validation",
   "Unexpected error during APS extraction"}

\* lines 191-249: download the PDF, extract its text, run the LLM pass
ExtractLlm(r, results) ==
  /\ req[r].pc = "ex_llm"
  /\ \E res \in ExtractionResults, aps \in results :
       /\ res # "ok" => faults > 0 /\ aps = CHOOSE a \in results : TRUE
       /\ faults' = IF res = "ok" THEN faults ELSE faults - 1
       /\ req' = IF res # "ok" THEN Return(r, ExtractFailed(res))
                 ELSE [req EXCEPT ![r].pc = "ex_doc_save", ![r].aps = aps]
  /\ UNCHANGED <<tables, provider_sent, now, env>>

\* where the handler goes once the document is saved (lines 261-262, 306-310)
AfterDocSave(q, r, verified) ==
  IF q[r].doc.transaction_id # Null
  THEN [q EXCEPT ![r].pc = "ex_tx_read", ![r].attempt = 0,
                 ![r].docSave = SaveResult(TRUE, verified)]
  ELSE ReturnIn([q EXCEPT ![r].docSave = SaveResult(TRUE, verified)], r,
                Response(TRUE, 200, IF verified
                                    THEN "APS saved (verified after transient error)"
                                    ELSE "APS saved"))

\* lines 81-91: one attempt of updateDocumentWithRetry
ExtractDocSave(r) ==
  /\ req[r].pc = "ex_doc_save"
  /\ \E o \in WriteOutcomes :
       /\ Allowed(o)
       /\ faults' = Charge(o)
       /\ documents' =
            IF Applied(o) /\ documents[req[r].documentId].present
            THEN [documents EXCEPT ![req[r].documentId].extracted_json =
                                     ApsJson(req[r].aps),
                                   ![req[r].documentId].status = "EXTRACTED"]
            ELSE documents
       /\ LET q == [req EXCEPT ![r].hist = Append(@, o),
                               ![r].docAfter = documents'[req[r].documentId]]
          IN req' =
               IF Thrown(o)
               THEN ReturnIn(q, r, ExtractFailed("Unexpected error during APS extraction"))
               ELSE IF o = "ok"
               THEN AfterDocSave(q, r, FALSE)
               ELSE IF MoreAttempts(req[r].attempt)
               THEN [q EXCEPT ![r].attempt = @ + 1]
               ELSE [q EXCEPT ![r].pc = "ex_doc_verify"]
  /\ UNCHANGED <<transactions, approval_links, inbox_emails, email_outbox,
                 provider_sent, now, env>>

\* lines 100-104
DocVerified(verify, o) ==
  /\ verify.present
  /\ verify.status = "EXTRACTED"
  /\ verify.extracted_json # NoData
  /\ o = "ok"

\* lines 93-108 and 253-258: read the document back
ExtractDocVerify(r) ==
  /\ req[r].pc = "ex_doc_verify"
  /\ \E o \in ReadOutcomes :
       /\ Allowed(o)
       /\ faults' = Charge(o)
       /\ LET verify == IF o = "ok" THEN documents[req[r].documentId] ELSE NoDoc
              q == [req EXCEPT ![r].docRead = verify]
          IN req' =
               IF Thrown(o)
               THEN ReturnIn(q, r, ExtractFailed("Unexpected error during APS extraction"))
               ELSE IF DocVerified(verify, o)
               THEN AfterDocSave(q, r, TRUE)
               ELSE ReturnIn(q, r, ExtractFailed("Failed to save APS extraction to document"))
  /\ UNCHANGED <<tables, provider_sent, now, env>>

\* lines 263-278: read the transaction (a failed read yields null), build
\* the summary update
ExtractTxRead(r) ==
  /\ req[r].pc = "ex_tx_read"
  /\ \E o \in ReadOutcomes :
       /\ Allowed(o)
       /\ faults' = Charge(o)
       /\ LET tx == IF o = "ok"
                    THEN SelectTx(transactions, req[r].doc.transaction_id) ELSE NoTx
          IN req' =
               IF Thrown(o)
               THEN Return(r, ExtractFailed("Unexpected error during APS extraction"))
               ELSE [req EXCEPT ![r].pc = "ex_tx_save", ![r].txSnap = tx,
                                ![r].txUpdate = TxUpdate(req[r].aps, tx)]
  /\ UNCHANGED <<tables, provider_sent, now, env>>

\* lines 306-310: the final answer
ExtractSaved(q, r) ==
  ReturnIn(q, r, Response(TRUE, 200,
                          IF q[r].docSave.verified
                          THEN "APS saved (verified after transient error)"
                          ELSE "APS saved"))

\* lines 118-128: one attempt of updateTransactionWithRetry
ExtractTxSave(r) ==
  /\ req[r].pc = "ex_tx_save"
  /\ \E o \in WriteOutcomes :
       /\ Allowed(o)
       /\ faults' = Charge(o)
       /\ transactions' =
            IF Applied(o)
            THEN UpdateTx(transactions, req[r].doc.transaction_id, req[r].txUpdate)
            ELSE transactions
       /\ LET q == [req EXCEPT ![r].txHist = Append(@, o)]
          IN req' =
               IF Thrown(o)
               THEN ReturnIn(q, r, ExtractFailed("Unexpected error during APS extraction"))
               ELSE IF o = "ok"
               THEN ExtractSaved([q EXCEPT ![r].txSave = SaveResult(TRUE, FALSE)], r)
               ELSE IF MoreAttempts(req[r].attempt)
               THEN [q EXCEPT ![r].attempt = @ + 1]
               ELSE [q EXCEPT ![r].pc = "ex_tx_verify"]
  /\ UNCHANGED <<approval_links, inbox_emails, documents, email_outbox,
                 provider_sent, now, env>>

\* a verification that compares the row with the update
TxVerifiedStrict(verify, o, upd) == Carries(verify, upd) /\ o = "ok"

\* line 137: !!verify && !vErr
TxVerified(verify, o, upd) == verify # NoTx /\ o = "ok"

\* lines 130-140 and 280-288: read the transaction back
ExtractTxVerify(r) ==
  /\ req[r].pc = "ex_tx_verify"
  /\ \E o \in ReadOutcomes :
       /\ Allowed(o)
       /\ faults' = Charge(o)
       /\ LET verify == IF o = "ok"
                        THEN SelectTx(transactions, req[r].doc.transaction_id)
                        ELSE NoTx
              q == [req EXCEPT ![r].txRead = verify]
          IN req' =
               IF Thrown(o)
               THEN ReturnIn(q, r, ExtractFailed("Unexpected error during APS extraction"))
               ELSE IF TxVerified(verify, o, req[r].txUpdate)
               THEN ExtractSaved([q EXCEPT ![r].txSave = SaveResult(TRUE, TRUE)], r)
               ELSE ReturnIn(q, r,
                      Response(TRUE, 200,
                        "APS saved to document, but transaction update may be delayed"))
  /\ UNCHANGED <<tables, provider_sent, now, env>>

ExtractSteps(r, results) ==
  \/ ExtractLoad(r)
  \/ ExtractLlm(r, results)
  \/ ExtractDocSave(r)
  \/ ExtractDocVerify(r)
  \/ ExtractTxRead(r)
  \/ ExtractTxSave(r)
  \/ ExtractTxVerify(r)

Extract(r) ==
  \/ ExtractStart(r, DocIds)
  \/ ExtractSteps(r, ApsResults)

----------------------------------------------------------------------------
(* POST /api/intake/submit *)

IntakeForms == {<<"intake_form">>}

\* an update that leaves the stored form alone
IntakeUpdateKeepsData(form, completedAt) ==
  [client_intake_completed_at |-> completedAt,
   workflow_status |-> "CLIENT_INTAKE_COMPLETED"]

\* lines 56-60
IntakeUpdate(form, completedAt) ==
  [client_intake_data |-> form, client_intake_completed_at |-> completedAt,
   workflow_status |-> "CLIENT_INTAKE_COMPLETED"]

\* lines 23-30
looksLikeIntakeSaved(tx) ==
  /\ tx # NoTx
  /\ IsSet(tx.client_intake_completed_at)
  /\ HasData(tx.client_intake_data)

\* lines 32-47, the form drawn from forms
IntakeStartWith(r, txs, forms) ==
  /\ req[r].pc = "idle"
  /\ \E t \in txs, form \in forms :
       req' = [req EXCEPT ![r] =
                 [op |-> "intake", pc |-> "in_save", transactionId |-> t,
                  form |-> form, completedAt |-> now, attempt |-> 0,
                  after |-> Answered]]
  /\ UNCHANGED <<tables, provider_sent, now, faults, env>>

\* lines 32-47
IntakeStart(r, txs) == IntakeStartWith(r, txs, IntakeForms)

\* lines 49-73 and 112-130: the update inside retry()
IntakeSave(r) ==
  /\ req[r].pc = "in_save"
  /\ \E o \in WriteOutcomes :
       /\ Allowed(o)
       /\ faults' = Charge(o)
       /\ transactions' =
            IF Applied(o)
            THEN UpdateTx(transactions, req[r].transactionId,
                          IntakeUpdate(req[r].form, req[r].completedAt))
            ELSE transactions
       /\ req' =
            IF Thrown(o) /\ RetryAgain(req[r].attempt)
            THEN [req EXCEPT ![r].attempt = @ + 1]
            ELSE IF o = "ok"
            THEN Return(r, Response(TRUE, 200, "Intake saved"))
            ELSE [req EXCEPT ![r].pc = "in_verify", ![r].attempt = 0]
  /\ UNCHANGED <<approval_links, inbox_emails, documents, email_outbox,
                 provider_sent, now, env>>

\* lines 74-110: read back inside retry(); a verify that crashes is ignored
IntakeVerify(r) ==
  /\ req[r].pc = "in_verify"
  /\ \E o \in ReadOutcomes :
       /\ Allowed(o)
       /\ faults' = Charge(o)
       /\ LET saved == SelectTx(transactions, req[r].transactionId)
          IN req' =
               IF Thrown(o) /\ RetryAgain(req[r].attempt)
               THEN [req EXCEPT ![r].attempt = @ + 1]
               ELSE IF o = "ok" /\ looksLikeIntakeSaved(saved)
               THEN Return(r, Response(TRUE, 200,
                                       "Intake saved (verified after transient error)"))
               ELSE Return(r, Response(FALSE, 500, "Failed to save intake"))
  /\ UNCHANGED <<tables, provider_sent, now, env>>

Intake(r, txs) ==
  \/ IntakeStart(r, txs)
  \/ IntakeSave(r)
  \/ IntakeVerify(r)

----------------------------------------------------------------------------
(* The operator's actions on the dashboard *)

\* the statuses the new-transaction form offers (page.tsx 180-183)
FormStatuses == {"NEW", "IN_REVIEW", "READY_TO_CLOSE", "CLOSED"}

\* NewTransactionPage.handleSubmit (lines 42-63): insert the form's row
NewTransactionSubmit(fileNumber, st) ==
  /\ \E t \in TxIds : ~transactions[t].present
  /\ \E o \in WriteOutcomes :
       /\ Allowed(o)
       /\ FileNumberTaken(transactions, fileNumber) => ~Applied(o)
       /\ faults' = Charge(o)
       /\ transactions' =
            IF Applied(o)
            THEN [transactions EXCEPT ![NextTxId(transactions)] =
                    [CreatePayload("u1", fileNumber) EXCEPT
                       !.id = NextTxId(transactions), !.status = st,
                       !.client_name = "Client", !.property_address = "1 Main St",
                       !.closing_date = "2026-02-01"]]
            ELSE transactions
  /\ UNCHANGED <<approval_links, inbox_emails, documents, email_outbox,
                 provider_sent, now, env, req>>

\* lines 1131-1145: the Close File button is rendered with the closing date
\* and disabled once status is CLOSED
CloseFileEnabled(tx) ==
  /\ tx.present
  /\ Truthy(tx.closing_date)
  /\ tx.status # "CLOSED"

\* lines 571-594
handleCloseFile(t) ==
  /\ CloseFileEnabled(transactions[t])
  /\ \E o \in WriteOutcomes :
       /\ Allowed(o)
       /\ faults' = Charge(o)
       /\ transactions' =
            IF Applied(o)
            THEN UpdateTx(transactions, t, [status |-> "CLOSED",
                                            workflow_status |-> "CLOSED"])
            ELSE transactions
  /\ UNCHANGED <<approval_links, inbox_emails, documents, email_outbox,
                 provider_sent, now, env, req>>

\* lines 951-973
handleSaveLawyerEmailOnly(t, lawyerEmail) ==
  /\ transactions[t].present
  /\ \E o \in WriteOutcomes :
       /\ Allowed(o)
       /\ faults' = Charge(o)
       /\ transactions' =
            IF Applied(o)
            THEN UpdateTx(transactions, t,
                          [lawyer_email |-> IF Truthy(lawyerEmail)
                                            THEN lawyerEmail ELSE Null])
            ELSE transactions
  /\ UNCHANGED <<approval_links, inbox_emails, documents, email_outbox,
                 provider_sent, now, env, req>>

\* the toast that ends a dashboard action
Toast(ok, message) == Response(ok, IF ok THEN 200 ELSE 500, message)

\* lines 975-989: needs a lawyer email in the field and a draft on the page
handleSendForApprovalStart(r, t, lawyerEmail) ==
  /\ req[r].pc = "idle"
  /\ transactions[t].present
  /\ Truthy(lawyerEmail)
  /\ Truthy(transactions[t].requisition_letter_draft)
       \/ Truthy(transactions[t].requisition_letter_draft_html)
  /\ Len(approval_links) < Len(TokenSeq)
  /\ req' = [req EXCEPT ![r] =
               [op |-> "send_for_approval", pc |-> "sa_save", transactionId |-> t,
                lawyerEmail |-> lawyerEmail, token |-> Null, after |-> Answered]]
  /\ UNCHANGED <<tables, provider_sent, now, faults, env>>

\* lines 990-995: save the lawyer email first
handleSendForApprovalSave(r) ==
  /\ req[r].pc = "sa_save"
  /\ \E o \in WriteOutcomes :
       /\ Allowed(o)
       /\ faults' = Charge(o)
       /\ transactions' =
            IF Applied(o)
            THEN UpdateTx(transactions, req[r].transactionId,
                          [lawyer_email |-> req[r].lawyerEmail])
            ELSE transactions
       /\ req' = IF o = "ok" THEN [req EXCEPT ![r].pc = "sa_link"]
                 ELSE Return(r, Toast(FALSE, "Failed to send approval email"))
  /\ UNCHANGED <<approval_links, inbox_emails, documents, email_outbox,
                 provider_sent, now, env>>

\* lines 997-1026: insert the approval link (result not read), then post the
\* approval email to /api/email/send, whose answer ends the action
handleSendForApprovalLink(r) ==
  /\ req[r].pc = "sa_link"
  /\ Len(approval_links) < Len(TokenSeq)
  /\ \E o \in WriteOutcomes :
       /\ Allowed(o)
       /\ faults' = Charge(o)
       /\ LET id == Len(approval_links) + 1
              token == TokenSeq[id]
          IN /\ approval_links' =
                  IF Applied(o)
                  THEN Append(approval_links,
                              [id |-> id, transaction_id |-> req[r].transactionId,
                               token_hash |-> sha256(token),
                               expires_at |-> now + LinkTTL, used_at |-> NoTime])
                  ELSE approval_links
             /\ req' =
                  IF Thrown(o)
                  THEN Return(r, Toast(FALSE, "Failed to send approval email"))
                  ELSE CallEmailSend(r, Mail(req[r].transactionId, "LAWYER_APPROVAL",
                                             req[r].lawyerEmail), "done")
  /\ UNCHANGED <<transactions, inbox_emails, documents, email_outbox,
                 provider_sent, now, env>>

handleSendForApproval(r) ==
  \/ handleSendForApprovalSave(r)
  \/ handleSendForApprovalLink(r)

\* the deployment supplies RESEND_API_KEY and RESEND_FROM_EMAIL
ConfigureEmail ==
  /\ ~env.resend_api_key \/ ~env.resend_from_email
  /\ env' = [env EXCEPT !.resend_api_key = TRUE, !.resend_from_email = TRUE]
  /\ UNCHANGED <<tables, provider_sent, now, faults, req>>

\* an answered request leaves; the operator or the caller can try again
Leave(r) ==
  /\ req[r].pc = "done"
  /\ req' = [req EXCEPT ![r] = Idle]
  /\ UNCHANGED <<tables, provider_sent, now, faults, env>>

----------------------------------------------------------------------------
(* POST /api/lawyer/approve, continued *)

\* lines 86-92: send the approved letter to the vendor solicitor
ApproveSendVendor(r) ==
  /\ req[r].op = "approve" /\ req[r].pc = "send_vendor"
  /\ \E o \in ProviderOutcomes :
       /\ ProviderAllowed(o)
       /\ faults' = ProviderCharge(o)
       /\ provider_sent' =
            IF o = "sent"
            THEN Append(provider_sent,
                        [kind |-> "Requisitions", to |-> req[r].tx.vendor_solicitor_email,
                         transactionId |-> req[r].transactionId,
                         outboxId |-> 0, by |-> r])
            ELSE provider_sent
       /\ req' =
            IF o = "throw"
            THEN Return(r, Unexpected("Unexpected error approving requisition"))
            ELSE [req EXCEPT ![r].pc = "fetch_send"]
  /\ UNCHANGED <<tables, now, env>>

\* lines 95-109: fetch('/api/email/send') inside try/catch. The URL has no
\* origin, so the server-side fetch rejects (invalid URL) and the catch at
\* line 107 swallows it: no state changes, the handler goes on in the same
\* step to lines 112-118, which record the send and answer.
ApproveSetSentToVendor(r) ==
  /\ req[r].op = "approve" /\ req[r].pc = "fetch_send"
  /\ \E o \in WriteOutcomes :
       /\ Allowed(o)
       /\ faults' = Charge(o)
       /\ transactions' =
            IF Applied(o)
            THEN UpdateTx(transactions, req[r].transactionId,
                          [workflow_status |-> "REQUISITION_SENT_TO_VENDOR"])
            ELSE transactions
       /\ req' =
            IF Thrown(o)
            THEN Return(r, Unexpected("Unexpected error approving requisition"))
            ELSE Return(r, Response(TRUE, 200, "Approved and sent to vendor solicitor"))
  /\ UNCHANGED <<approval_links, inbox_emails, documents, email_outbox,
                 provider_sent, now, env>>

ApproveSteps(r) ==
  \/ ApproveLoadLink(r)
  \/ ApproveLoadTx(r)
  \/ ApproveUpdateTx(r)
  \/ ApproveMarkUsed(r)
  \/ ApproveSendVendor(r)
  \/ ApproveSetSentToVendor(r)

EmailSend(r) ==
  \/ EmailSendStart(r)
  \/ EmailSendOutbox(r)
  \/ EmailSendProvider(r)
  \/ EmailSendMark(r)

----------------------------------------------------------------------------
(* Approval: two requests against issued links *)

\* an approval link as issued by the automation at time t (route.ts 166-175)
IssuedLink(id, transactionId, token, t) ==
  [id |-> id, transaction_id |-> transactionId, token_hash |-> sha256(token),
   expires_at |-> t + LinkTTL, used_at |-> NoTime]

\* a transaction whose requisition draft was sent to the lawyer
SentToLawyerTx(id, fileNumber, vendorEmail) ==
  [CreatePayload("u1", fileNumber) EXCEPT
     !.workflow_status = "REQUISITION_SENT_TO_LAWYER",
     !.lawyer_email = "lawyer@firm",
     !.vendor_solicitor_email = vendorEmail,
     !.title_search_data = <<"facts">>, !.title_search_received_at = 0,
     !.requisition_letter_draft = "draft", !.requisition_letter_draft_html = "draft_html",
     !.requisition_letter_generated_at = 0, !.id = id]

EnvConfigured == [resend_api_key |-> TRUE, resend_from_email |-> TRUE, app_public_url |-> TRUE]

InitApprove ==
  /\ \E v \in {Null, "vendor@firm"} :
       transactions = [t \in TxIds |->
                         IF t = "t1" THEN SentToLawyerTx("t1", "F1", "vendor@firm")
                         ELSE IF t = "t2" THEN SentToLawyerTx("t2", "F2", v)
                         ELSE NoTx]
  /\ approval_links = <<IssuedLink(1, "t1", "k1", 0),
                        [IssuedLink(2, "t2", "k2", 0) EXCEPT !.used_at = 0]>>
  /\ inbox_emails = <<>>
  /\ documents = [d \in DocIds |-> NoDoc]
  /\ email_outbox = <<>>
  /\ provider_sent = <<>>
  /\ now = 0
  /\ faults = ApproveFaults
  /\ env = EnvConfigured
  /\ req = [r \in ReqIds |-> Idle]

\* the tokens of the two issued links
NextApprove ==
  \/ Tick
  \/ \E r \in ReqIds : ApproveStart(r, {"t1", "t2"}, {"k1", "k2"})
  \/ \E r \in ReqIds : ApproveSteps(r)

SpecApprove == InitApprove /\ [][NextApprove]_vars

----------------------------------------------------------------------------
(* Claims about the approval link *)

ApproveDone(r) == req[r].op = "approve" /\ req[r].pc = "done"

ApprovedOk(r) == ApproveDone(r) /\ req[r].resp.ok

\* the row of the link request r loaded, as it is now
LinkRowOf(r) == approval_links[req[r].link.id]

\* C1: two approval requests with the same valid token, no transport fault,
\* both answered while the link is unexpired: exactly one of them succeeds and
\* the other is rejected as invalid or already used.
C1_ExactlyOneApproval ==
  \A a, b \in ReqIds :
    ( /\ a # b /\ ApproveDone(a) /\ ApproveDone(b)
      /\ req[a].transactionId = "t1" /\ req[a].token = "k1"
      /\ req[b].transactionId = "t1" /\ req[b].token = "k1"
      /\ faults = ApproveFaults
      /\ now < approval_links[1].expires_at )
    => \/ req[a].resp.ok /\ ~req[b].resp.ok
          /\ req[b].resp.message = "Approval link is invalid or already used"
       \/ req[b].resp.ok /\ ~req[a].resp.ok
          /\ req[a].resp.message = "Approval link is invalid or already used"

\* C2: an approval request succeeds only if the link it looked up belongs to
\* the request's transaction, carries the hash of the presented token, was
\* unused, and the clock at the check was before expires_at.
C2_SucceedsOnlyIfValid ==
  \A r \in ReqIds :
    ApprovedOk(r) =>
      /\ req[r].link # NoLink
      /\ req[r].link.transaction_id = req[r].transactionId
      /\ req[r].link.token_hash = sha256(req[r].token)
      /\ ~IsSet(req[r].link.used_at)
      /\ req[r].checkedAt < req[r].link.expires_at

\* the rows a rejected request must leave alone: what Init put there
C2_RejectedBeforeAnyWrite ==
  \A r \in ReqIds :
    (ApproveDone(r) /\ req[r].link = NoLink) =>
      /\ ~req[r].resp.ok
      /\ req[r].wrote = Null /\ req[r].marked = Null

\* C3: when the approval write of a request is not applied (rejected, or the
\* fetch failed), the request ends there with a failure, the transaction does
\* not carry its edit, and the link it loaded is not consumed by it: the
\* link is unused unless another request consumed it.
C3_FailedSaveLeavesLinkUnused ==
  \A r \in ReqIds :
    (req[r].op = "approve" /\ req[r].wrote \in {"err", "throw"}) =>
      /\ req[r].pc = "done"
      /\ ~req[r].resp.ok
      /\ req[r].marked = Null
      /\ transactions[req[r].transactionId].requisition_letter_draft_html
           # req[r].editedHtml
      /\ (\A b \in ReqIds \ {r} : req[b].op = "approve" => req[b].marked = Null)
           => ~IsSet(LinkRowOf(r).used_at)

\* C3 witness: r1's approval write failed and was answered with a failure;
\* r2 arrived after that answer with the same token and was approved.
C3_Witness ==
  /\ ApproveDone("r1") /\ req["r1"].wrote = "err"
  /\ req["r1"].resp.message = "Failed to save approval"
  /\ ApprovedOk("r2") /\ "r1" \in req["r2"].after
  /\ req["r2"].token = req["r1"].token
  /\ req["r2"].transactionId = req["r1"].transactionId

\* C4: an approval request that returned success has consumed its link: the
\* transaction is never left approved with the link still usable.
C4_ApprovedImpliesConsumed ==
  \A r \in ReqIds :
    ApprovedOk(r) => IsSet(LinkRowOf(r).used_at)

----------------------------------------------------------------------------
(* Inbound email: two deliveries against an open transaction *)

\* a transaction whose client intake is complete, waiting for the title search
IntakeCompletedTx(id, fileNumber, lawyerEmail) ==
  [CreatePayload("u1", fileNumber) EXCEPT
     !.workflow_status = "CLIENT_INTAKE_COMPLETED",
     !.client_email = "client@mail", !.lawyer_email = lawyerEmail,
     !.client_intake_data = <<"intake">>, !.client_intake_completed_at = 0,
     !.id = id]

\* the deliveries of the webhook: a title-search reply for file 251220-9452
\* with a vendor undertaking, a message without file number, and a message
\* for a file number no transaction has
InboundEmails ==
  {InboundEmail("m1", <<"Searches", "251220-9452">>, "lawyer@firm", <<>>,
                {"undertaking"}),
   InboundEmail("m2", <<"Hello">>, "", <<"clerk@firm">>, {}),
   InboundEmail("m3", <<"Re", "AIC-2025-000123">>, "", <<>>, {})}

InitInbound ==
  /\ \E l \in {Null, "counsel@firm"} :
       transactions = [t \in TxIds |->
                         IF t = "t1" THEN IntakeCompletedTx("t1", "251220-9452", l)
                         ELSE NoTx]
  /\ approval_links = <<>>
  /\ inbox_emails = <<>>
  /\ documents = [d \in DocIds |-> NoDoc]
  /\ email_outbox = <<>>
  /\ provider_sent = <<>>
  /\ now = MaxTime - 1   \* one day boundary can pass while the deliveries run
  /\ faults = InboundFaults
  /\ \E u \in BOOLEAN : env = [EnvConfigured EXCEPT !.app_public_url = u]
  /\ req = [r \in ReqIds |-> Idle]

NextInbound ==
  \/ Tick
  \/ \E r \in ReqIds : InboundStart(r, InboundEmails)
  \/ \E r \in ReqIds : InboundSteps(r)
  \/ \E r \in ReqIds : AutomationSteps(r)

SpecInbound == InitInbound /\ [][NextInbound]_vars

----------------------------------------------------------------------------
(* Claims about inbound email *)

InboundDone(r) == req[r].op = "inbound" /\ req[r].pc = "done"

\* C5: deliveries with the same provider_message_id leave at most one inbox
\* row for it, at most one of them applies a write to the transaction, and a
\* delivery whose insert met the existing row is answered with success
\* ("Duplicate ignored") having inserted and mutated nothing.
C5_DuplicateDeliveryIsNoOp ==
  /\ \A i, j \in DOMAIN inbox_emails :
       i # j => inbox_emails[i].provider_message_id
                  # inbox_emails[j].provider_message_id
  /\ \A a, b \in ReqIds :
       ( /\ a # b /\ req[a].op = "inbound" /\ req[b].op = "inbound"
         /\ req[a].email.provider_message_id = req[b].email.provider_message_id )
       => ~(req[a].mutated /\ req[b].mutated)
  /\ \A r \in ReqIds :
       (req[r].op = "inbound" /\ req[r].insertResult = "duplicate")
       => /\ req[r].pc = "done"
          /\ req[r].resp = Response(TRUE, 200, "Duplicate ignored")
          /\ req[r].inserted = 0
          /\ ~req[r].mutated

\* C5 witness: one delivery was processed, the other delivery of the same
\* message was ignored as a duplicate, and the inbox holds one row for it.
C5_Witness ==
  \E a, b \in ReqIds :
    /\ InboundDone(a) /\ req[a].resp.message = "Inbound email processed"
    /\ InboundDone(b) /\ req[b].resp.message = "Duplicate ignored"
    /\ req[a].email = req[b].email
    /\ Cardinality({i \in DOMAIN inbox_emails :
                     inbox_emails[i].provider_message_id
                       = req[a].email.provider_message_id}) = 1
    /\ transactions["t1"].workflow_status # "CLIENT_INTAKE_COMPLETED"

----------------------------------------------------------------------------
(* Retry and read-back: creation and APS extraction under transport faults *)

\* a transaction as created, with its APS uploaded
CreatedTx(id, fileNumber, clientEmail) ==
  [CreatePayload("u1", fileNumber) EXCEPT !.client_email = clientEmail, !.id = id]

ApsDocument(id, transactionId) ==
  [id |-> id, present |-> TRUE, type |-> "APS", transaction_id |-> transactionId,
   status |-> "UPLOADED", extracted_json |-> NoData]

\* d2 was extracted before (its APS can be extracted again), or is no APS,
\* or was never uploaded
InitRetry ==
  /\ \E c \in {Null, "client@mail"} :
       transactions = [t \in TxIds |->
                         IF t = "t1"
                         THEN [CreatedTx("t1", "251220-9452", c) EXCEPT !.user_id = "u0"]
                         ELSE NoTx]
  /\ \E d2 \in {[ApsDocument("d2", "t1") EXCEPT
                   !.status = "EXTRACTED", !.extracted_json = <<"aps_earlier">>],
                [ApsDocument("d2", "t1") EXCEPT !.type = "STATUS_CERT"],
                NoDoc} :
       documents = [d \in DocIds |-> IF d = "d1" THEN ApsDocument("d1", "t1") ELSE d2]
  /\ approval_links = <<>>
  /\ inbox_emails = <<>>
  /\ email_outbox = <<>>
  /\ provider_sent = <<>>
  /\ now = MaxTime
  /\ faults = RetryFaults
  /\ env = EnvConfigured
  /\ req = [r \in ReqIds |-> Idle]

\* two creations can race; one extraction is in flight at a time
NextRetry ==
  \/ \E r \in ReqIds : Create(r)
  \/ Extract("r2")

SpecRetry == InitRetry /\ [][NextRetry]_vars

----------------------------------------------------------------------------
(* Claims about retry and read-back *)

CreateDone(r) == req[r].op = "create" /\ req[r].pc = "done" /\ req[r].fileNumber # Null

\* the attempts of request r that the store applied
AppliedAttempts(r) == {i \in DOMAIN req[r].hist : req[r].hist[i] \in {"ok", "err_applied"}}

\* the rows that carry the payload of create request r
RowsOf(r) ==
  {t \in TxIds : /\ transactions[t].present
                 /\ transactions[t].file_number = req[r].fileNumber
                 /\ transactions[t].user_id = req[r].userId}

\* every failure request r met was an error returned by an attempt of the
\* retry loop: nothing was thrown, and a read-back, if any, was answered
OnlyAttemptsFailed(r) ==
  /\ \A i \in DOMAIN req[r].hist : ~Thrown(req[r].hist[i])
  /\ "verifyRead" \in DOMAIN req[r] => req[r].verifyRead = "ok"

\* C6: a creation whose insert was applied by some attempt (the last one, or
\* an earlier one whose response was lost) reports success and leaves exactly
\* one row, applied once; a document save whose last attempt succeeded
\* reports success and the document carries exactly that extraction.
C6_RetryAppliesOneWrite ==
  /\ \A r \in ReqIds :
       (CreateDone(r) /\ OnlyAttemptsFailed(r) /\ AppliedAttempts(r) # {})
       => /\ req[r].resp.ok
          /\ Cardinality(AppliedAttempts(r)) = 1
          /\ Cardinality(RowsOf(r)) = 1
  /\ \A r \in ReqIds :
       ( /\ req[r].op = "extract" /\ Len(req[r].hist) > 0
         /\ req[r].hist[Len(req[r].hist)] = "ok" )
       => /\ req[r].docSave = SaveResult(TRUE, FALSE)
          /\ req[r].docAfter.status = "EXTRACTED"
          /\ req[r].docAfter.extracted_json = ApsJson(req[r].aps)

\* C6 witness: one creation succeeded on its third attempt after two errors,
\* the other lost the response of its applied first attempt and was verified
\* by read-back; each left one row.
C6_Witness ==
  \E a, b \in ReqIds :
    /\ CreateDone(a) /\ req[a].hist = <<"err", "err", "ok">> /\ req[a].resp.ok
    /\ CreateDone(b) /\ req[b].hist = <<"err_applied", "duplicate", "duplicate">>
    /\ req[b].resp.message = "Created (verified after transient error)"
    /\ Cardinality(RowsOf(a)) = 1 /\ Cardinality(RowsOf(b)) = 1

\* C7: a wrapped write is reported as verified only if the read-back showed
\* the state the write intended: the document with this extraction, the
\* transaction carrying the summary update, the row this creation inserted.
C7_VerifiedOnlyIfPresent ==
  \A r \in ReqIds :
    /\ (req[r].op = "extract" /\ req[r].docSave.verified)
         => /\ req[r].docRead.status = "EXTRACTED"
            /\ req[r].docRead.extracted_json = ApsJson(req[r].aps)
    /\ (req[r].op = "extract" /\ req[r].txSave.verified)
         => Carries(req[r].txRead, req[r].txUpdate)
    /\ (CreateDone(r) /\ req[r].resp.message = "Created (verified after transient error)")
         => /\ req[r].verify.file_number = req[r].fileNumber
            /\ req[r].verify.user_id = req[r].userId

\* the part of C7 that holds: when the read-back finds nothing, the failure
\* is reported (the document save and the creation answer 500)
C7_NotFoundIsFailure ==
  \A r \in ReqIds :
    /\ (CreateDone(r) /\ "verify" \in DOMAIN req[r] /\ req[r].verify = NoTx)
         => ~req[r].resp.ok
    /\ (req[r].op = "extract" /\ req[r].pc = "done" /\ Len(req[r].hist) = RetryAttempts
          /\ ~req[r].docSave.ok /\ ~Thrown(req[r].hist[RetryAttempts]))
         => ~req[r].resp.ok

----------------------------------------------------------------------------
(* The workflow: every operation against one open file *)

\* the stages t1 can be at when the operations start
WorkflowStages ==
  {CreatedTx("t1", "251220-9452", "client@mail"),
   SentToLawyerTx("t1", "251220-9452", "vendor@firm")}

\* what the extraction of d1 yields: an APS without a completion date
WorkflowAps == Aps(Null, "Unit 5 - 100 Bay St", Null)

TitleSearchEmail ==
  InboundEmail("m1", <<"Searches", "251220-9452">>, "lawyer@firm", <<>>, {"undertaking"})

InitWorkflow ==
  /\ \E tx \in WorkflowStages :
       /\ transactions = [t \in TxIds |-> IF t = "t1" THEN tx ELSE NoTx]
       /\ approval_links = IF tx.workflow_status = "REQUISITION_SENT_TO_LAWYER"
                           THEN <<IssuedLink(1, "t1", "k1", MaxTime)>>
                           ELSE <<>>
  /\ inbox_emails = <<>>
  /\ documents = [d \in DocIds |-> IF d = "d1" THEN ApsDocument("d1", "t1") ELSE NoDoc]
  /\ email_outbox = <<>>
  /\ provider_sent = <<>>
  /\ now = MaxTime
  /\ faults = WorkflowFaults
  /\ env = EnvConfigured
  /\ req = [r \in ReqIds |-> Idle]

\* the extraction while fewer than RetryAttempts writes fail: the read-backs
\* of the two wrapped writes are not reached
ExtractSavingSteps(r, results) ==
  \/ ExtractLoad(r)
  \/ ExtractLlm(r, results)
  \/ ExtractDocSave(r)
  \/ ExtractTxRead(r)
  \/ ExtractTxSave(r)

\* the automated operations, one after the other
AutomatedStep ==
  \/ ExtractStart("r1", {"d1"})
  \/ ExtractSavingSteps("r1", {WorkflowAps})
  \/ Intake("r1", {"t1"})
  \/ InboundStart("r1", {TitleSearchEmail})
  \/ InboundSteps("r1")
  \/ AutomationStart("r1", {"t1"})
  \/ AutomationSteps("r1")
  \/ ApproveStart("r1", {"t1"}, {"k1"})
  \/ ApproveSteps("r1")
  \/ Leave("r1")

\* the status the operator picks in the form
SubmittedStatuses == {st \in FormStatuses : st = "CLOSED"}

\* the operator's actions, at any moment
OperatorStep ==
  \/ \E t \in TxIds : handleCloseFile(t)
  \/ \E st \in SubmittedStatuses : NewTransactionSubmit("251220-1000", st)

NextWorkflow == AutomatedStep \/ OperatorStep

SpecWorkflow == InitWorkflow /\ [][NextWorkflow]_vars

----------------------------------------------------------------------------
(* Claims about CLOSED *)

IsClosed(tx) == tx.present /\ tx.workflow_status = "CLOSED"

\* C8: once workflow_status is CLOSED, no step changes the transaction's
\* workflow_status or status.
C8_ClosedIsTerminal ==
  [][\A t \in TxIds :
       IsClosed(transactions[t])
       => /\ transactions'[t].workflow_status = "CLOSED"
          /\ transactions'[t].status = transactions[t].status]_vars

\* a step that writes CLOSED to status or workflow_status of row t
BecomesClosed(t) ==
  \/ transactions'[t].status = "CLOSED" /\ transactions[t].status # "CLOSED"
  \/ transactions'[t].workflow_status = "CLOSED"
       /\ transactions[t].workflow_status # "CLOSED"

\* a file the operator has not closed
IsOpen(tx) == tx.present /\ tx.status # "CLOSED" /\ tx.workflow_status # "CLOSED"

\* C9 as stated: only the close-file action writes CLOSED, and the action is
\* available in every workflow state of an open file.
C9_OnlyCloseFileCloses ==
  /\ [][\A t \in TxIds : BecomesClosed(t) => handleCloseFile(t)]_vars
  /\ [](\A t \in TxIds : IsOpen(transactions[t]) => ENABLED handleCloseFile(t))

\* the part of C9 that holds: CLOSED is written only by the operator, through
\* the close-file action or by creating the file with status CLOSED in the
\* new-transaction form, never by an automated step; and the close-file
\* action is available whenever the file has a closing date and its status
\* is not CLOSED, whatever its workflow_status.
C9_OnlyOperatorCloses ==
  /\ [][\A t \in TxIds :
          BecomesClosed(t)
          => \/ handleCloseFile(t)
             \/ \E st \in SubmittedStatuses : NewTransactionSubmit("251220-1000", st)]_vars
  /\ [](\A t \in TxIds :
          ( /\ transactions[t].present
            /\ Truthy(transactions[t].closing_date)
            /\ transactions[t].status # "CLOSED" )
          => ENABLED handleCloseFile(t))

----------------------------------------------------------------------------
(* Sending the requisition to the lawyer, and trying again *)

SendFaults == 1

TitleSearchReceivedTx(id, fileNumber, lawyerEmail) ==
  [IntakeCompletedTx(id, fileNumber, lawyerEmail) EXCEPT
     !.workflow_status = "TITLE_SEARCH_RECEIVED",
     !.title_search_data = TitleSearchData(1, "lawyer@firm", 0),
     !.title_search_received_at = 0]

\* the title search of t1 has arrived; the lawyer's email, or the email
\* configuration of the deployment, may be missing
InitSend ==
  /\ \E l \in {Null, "counsel@firm"} :
       transactions = [t \in TxIds |->
                         IF t = "t1" THEN TitleSearchReceivedTx("t1", "251220-9452", l)
                         ELSE NoTx]
  /\ \E configured \in BOOLEAN :
       env = [EnvConfigured EXCEPT !.resend_api_key = configured]
  /\ approval_links = <<>>
  /\ inbox_emails = <<>>
  /\ documents = [d \in DocIds |-> NoDoc]
  /\ email_outbox = <<>>
  /\ provider_sent = <<>>
  /\ now = MaxTime
  /\ faults = SendFaults
  /\ req = [r \in ReqIds |-> Idle]

\* the automation is run, and run again
RunAutomation == AutomationStart("r1", {"t1"})

\* the operator types the lawyer's email and sends for approval; one link is
\* left for the automation
SendForApproval ==
  /\ Len(approval_links) < Len(TokenSeq) - 1
  /\ handleSendForApprovalStart("r1", "t1", "counsel@firm")

SaveLawyerEmail == handleSaveLawyerEmailOnly("t1", "counsel@firm")

\* the steps of the request in progress
SendSteps ==
  \/ AutomationSteps("r1")
  \/ handleSendForApproval("r1")
  \/ EmailSend("r1")
  \/ Leave("r1")

NextSend ==
  \/ RunAutomation
  \/ SendForApproval
  \/ SaveLawyerEmail
  \/ ConfigureEmail
  \/ SendSteps

\* what is missing is supplied, both retries are made again and again, and
\* a request in progress runs on
SpecSend ==
  /\ InitSend
  /\ [][NextSend]_vars
  /\ WF_vars(ConfigureEmail)
  /\ WF_vars(SaveLawyerEmail)
  /\ SF_vars(RunAutomation)
  /\ SF_vars(SendForApproval)
  /\ WF_vars(SendSteps)

AtSideBranch == transactions["t1"].workflow_status \in SideBranchStatuses

\* C10: from each side-branch status, retrying the send (the automation, or
\* the operator's send-for-approval) brings workflow_status to
\* REQUISITION_SENT_TO_LAWYER.
C10_RetryReachesSentToLawyer ==
  AtSideBranch ~> (transactions["t1"].workflow_status = "REQUISITION_SENT_TO_LAWYER")

\* what the code does instead: no step leaves a side-branch status
C10_SideBranchIsAbsorbing ==
  [][AtSideBranch => AtSideBranch']_vars

----------------------------------------------------------------------------
(* The lawyer's email under concurrent inbound deliveries *)

LawyerFaults == 1

\* two different messages about file 251220-9452, from different senders
TitleReplies ==
  {InboundEmail("m1", <<"Searches", "251220-9452">>, "lawyer@firm", <<>>, {}),
   InboundEmail("m4", <<"Re", "251220-9452">>, "clerk@firm", <<>>, {"undertaking"})}

InitLawyerEmail ==
  /\ \E l \in {Null, "counsel@firm"} :
       transactions = [t \in TxIds |->
                         IF t = "t1" THEN IntakeCompletedTx("t1", "251220-9452", l)
                         ELSE NoTx]
  /\ approval_links = <<>>
  /\ inbox_emails = <<>>
  /\ documents = [d \in DocIds |-> NoDoc]
  /\ email_outbox = <<>>
  /\ provider_sent = <<>>
  /\ now = MaxTime
  /\ faults = LawyerFaults
  /\ env = [EnvConfigured EXCEPT !.app_public_url = FALSE]
  /\ req = [r \in ReqIds |-> Idle]

NextLawyerEmail ==
  \/ \E r \in ReqIds : InboundStart(r, TitleReplies)
  \/ \E r \in ReqIds : InboundSteps(r)

SpecLawyerEmail == InitLawyerEmail /\ [][NextLawyerEmail]_vars

\* C11: a lawyer_email that is set is never replaced while inbound emails are
\* processed, in any interleaving.
C11_LawyerEmailFirstWriteWins ==
  [][\A t \in TxIds :
       Truthy(transactions[t].lawyer_email)
       => transactions'[t].lawyer_email = transactions[t].lawyer_email]_vars

\* the part of C11 that holds: a delivery whose read found a lawyer email
\* does not write one
C11_NoWriteAfterSeeingOne ==
  [][\A r \in ReqIds :
       (req[r].pc = "ib_lawyer_read" /\ req'[r].pc = "ib_lawyer_write")
       => \/ ~Truthy(transactions["t1"].lawyer_email)
          \/ faults' < faults]_vars

----------------------------------------------------------------------------
(* Claims about the outbox *)

\* the outbox row a send was logged in
OutboxRowOf(sent) ==
  {i \in DOMAIN email_outbox :
     /\ email_outbox[i].id = sent.outboxId
     /\ email_outbox[i].to_email = sent.to}

\* C12: every email handed to the provider has its email_outbox row, created
\* before the send.
C12_SendHasOutboxRow ==
  \A i \in DOMAIN provider_sent : OutboxRowOf(provider_sent[i]) # {}

\* the outbox rows whose send was attempted by request r
AttemptedRows(r) ==
  (IF "outboxId" \in DOMAIN req[r] /\ req[r].outboxId # 0
   THEN {req[r].outboxId} ELSE {})
  \cup (IF "auOutbox" \in DOMAIN req[r] /\ req[r].auOutbox # 0
        THEN {req[r].auOutbox} ELSE {})

\* C13: once the request has returned, the outbox row of a send it attempted
\* is SENT or FAILED, never QUEUED.
C13_NoQueuedAfterReturn ==
  \A r \in ReqIds :
    req[r].pc = "done"
    => \A i \in AttemptedRows(r) : email_outbox[i].status \in {"SENT", "FAILED"}

----------------------------------------------------------------------------
(* Automation runs triggered together *)

\* the inbound handler, the extraction and the dashboard each post to
\* /api/automations/run for t1; two of the requests are in flight together
NextAutomation ==
  \/ \E r \in ReqIds : AutomationStart(r, {"t1"})
  \/ \E r \in ReqIds : AutomationSteps(r)

SpecAutomation == InitSend /\ [][NextAutomation]_vars

LinksOf(t) == {i \in DOMAIN approval_links : approval_links[i].transaction_id = t}

ApprovalEmailsOf(t) ==
  {i \in DOMAIN provider_sent :
     /\ provider_sent[i].transactionId = t
     /\ provider_sent[i].kind = "LAWYER_APPROVAL"}

\* C14: however the automation runs interleave, at most one approval link is
\* issued for a transaction and at most one lawyer-approval email is sent.
C14_DraftGeneratedOnce ==
  \A t \in TxIds :
    /\ Cardinality(LinksOf(t)) <= 1
    /\ Cardinality(ApprovalEmailsOf(t)) <= 1

\* the part of C14 that holds: a run that loads the transaction after a draft
\* was saved generates nothing
C14_NoDraftNoRun ==
  [][\A r \in ReqIds :
       (req[r].pc = "au_load" /\ req'[r].pc = "au_save")
       => ~Truthy(transactions[req[r].auTx].requisition_letter_draft)]_vars

----------------------------------------------------------------------------
(* Claims about the vendor send *)

\* the requisition emails request r handed to the provider
VendorEmailsBy(r) ==
  {i \in DOMAIN provider_sent :
     provider_sent[i].by = r /\ provider_sent[i].kind = "Requisitions"}

\* C15: an approval answered with success has sent exactly one requisition
\* email to the vendor solicitor.
C15_ApprovedImpliesVendorEmail ==
  \A r \in ReqIds : ApprovedOk(r) => Cardinality(VendorEmailsBy(r)) = 1

\* the part of C15 that holds: the request that writes
\* REQUISITION_SENT_TO_VENDOR has passed the provider call without an
\* exception
C15_StatusAfterProviderCall ==
  [][\A t \in TxIds :
       ( transactions'[t].workflow_status = "REQUISITION_SENT_TO_VENDOR"
         /\ transactions[t].workflow_status # "REQUISITION_SENT_TO_VENDOR" )
       => \E r \in ReqIds : req[r].op = "approve" /\ req[r].pc = "fetch_send"]_vars

----------------------------------------------------------------------------
(* Claims about the APS extraction *)

ExtractDone(r) == req[r].op = "extract" /\ req[r].pc = "done"

\* an attempt of the transaction update of request r was applied
TxUpdateApplied(r) == \E i \in DOMAIN req[r].txHist : Applied(req[r].txHist[i])

\* the workflow_status an extracted transaction is to have
StatusForClientEmail(tx) ==
  IF Truthy(tx.client_email) THEN "CLIENT_INTAKE_READY"
  ELSE "APS_EXTRACTED_AWAITING_EMAIL"

\* C16: after a successful extraction whose transaction update was applied,
\* workflow_status is CLIENT_INTAKE_READY if the transaction has a
\* client_email and APS_EXTRACTED_AWAITING_EMAIL otherwise.
C16_StatusFollowsClientEmail ==
  \A r \in ReqIds :
    (ExtractDone(r) /\ req[r].resp.ok /\ TxUpdateApplied(r))
    => LET tx == transactions[req[r].doc.transaction_id]
       IN tx.workflow_status = StatusForClientEmail(tx)

\* the part of C16 that holds: it is so whenever the route's read of the
\* transaction succeeded
C16_StatusFollowsReadEmail ==
  \A r \in ReqIds :
    (ExtractDone(r) /\ req[r].resp.ok /\ TxUpdateApplied(r) /\ req[r].txSnap # NoTx)
    => LET tx == transactions[req[r].doc.transaction_id]
       IN tx.workflow_status = StatusForClientEmail(tx)

\* the document save of request r succeeded, and every attempt of its
\* transaction update returned an error without being applied
TxWriteFailedThroughout(r) ==
  /\ ExtractDone(r)
  /\ req[r].docSave.ok
  /\ Len(req[r].txHist) = RetryAttempts
  /\ \A i \in DOMAIN req[r].txHist : req[r].txHist[i] = "err"

\* the summary fields and workflow_status of the transaction are the ones it
\* was created with
SummaryUntouched(tx) ==
  /\ tx.workflow_status = "TRANSACTION_CREATED"
  /\ tx.client_name = "TBD"
  /\ tx.property_address = "TBD"
  /\ tx.closing_date = "2099-12-31"
  /\ tx.property_type = Null
  /\ tx.requires_status_cert = Null

PartialSuccessWarning == "APS saved to document, but transaction update may be delayed"

\* C17: when the document save succeeded and the transaction update failed
\* on every attempt, the document stays EXTRACTED with its extraction, the
\* transaction is unchanged, and the answer is a success with the warning.
C17_PartialSuccessIsReported ==
  \A r \in ReqIds :
    TxWriteFailedThroughout(r)
    => /\ documents[req[r].documentId].status = "EXTRACTED"
       /\ documents[req[r].documentId].extracted_json = ApsJson(req[r].aps)
       /\ SummaryUntouched(transactions[req[r].doc.transaction_id])
       /\ req[r].resp.ok
       /\ req[r].resp.message = PartialSuccessWarning

\* the part of C17 that holds: the document keeps its extraction, the
\* transaction is unchanged and the answer is a success
C17_PartialKeepsDocument ==
  \A r \in ReqIds :
    (TxWriteFailedThroughout(r) /\ req[r].txRead # NoTx)
    => /\ documents[req[r].documentId].status = "EXTRACTED"
       /\ documents[req[r].documentId].extracted_json = ApsJson(req[r].aps)
       /\ SummaryUntouched(transactions[req[r].doc.transaction_id])
       /\ req[r].resp.ok

\* the failures of the route's guards: no document, wrong type, too little
\* text, unparsable output
GuardFailures ==
  {"Document not found", "Document type must be APS",
   "Unable to extract text from APS PDF",
   "Failed to parse APS extraction result as JSON"}

\* request r attempted no write: its document holds no extraction of this
\* run and the transaction is as it was
WroteNothing(r) ==
  /\ req[r].hist = <<>>
  /\ req[r].txHist = <<>>
  /\ \A a \in ApsResults : documents[req[r].documentId].extracted_json # ApsJson(a)
  /\ SummaryUntouched(transactions["t1"])

\* C18: an extraction for a missing document is answered 404, for a document
\* that is no APS 400, for too little text or unparsable output 500; none of
\* them succeeds, and none modifies the document or the transaction.
C18_GuardFailuresWriteNothing ==
  \A r \in ReqIds :
    ExtractDone(r)
    => LET d == documents[req[r].documentId]
           resp == req[r].resp
       IN /\ ~d.present
               => ~resp.ok /\ (faults = RetryFaults => resp.code = 404)
          /\ (d.present /\ d.type # "APS")
               => ~resp.ok /\ (faults = RetryFaults => resp.code = 400)
          /\ resp.message = "Document not found" => resp.code = 404 /\ ~d.present
          /\ resp.message = "Document type must be APS"
               => resp.code = 400 /\ d.type # "APS"
          /\ resp.message \in {"Unable to extract text from APS PDF",
                               "Failed to parse APS extraction result as JSON"}
               => resp.code = 500 /\ ~resp.ok
          /\ resp.message \in GuardFailures => WroteNothing(r)

\* C18 witness: one extraction was refused (missing document, or not an APS)
\* and wrote nothing
C18_Witness ==
  /\ ExtractDone("r2")
  /\ req["r2"].resp.message \in {"Document not found", "Document type must be APS"}
  /\ WroteNothing("r2")

\* the inbox row request r inserted is in the table, for r's message
Logged(r) ==
  /\ req[r].inserted \in DOMAIN inbox_emails
  /\ inbox_emails[req[r].inserted].provider_message_id
       = req[r].email.provider_message_id

\* request r went past the insert: it is at the lookup or a later step, it
\* matched a transaction, or it applied a write to one
PastInsert(r) ==
  /\ req[r].op = "inbound"
  /\ \/ req[r].pc \notin {"ib_insert", "done"}
     \/ req[r].txId # Null
     \/ req[r].mutated

\* no step removes an inbox row or changes the message it records, and a row
\* enters the table as RECEIVED with no transaction
InboxIsAppendOnly ==
  /\ \A i \in DOMAIN inbox_emails :
       /\ i \in DOMAIN inbox_emails'
       /\ inbox_emails'[i].provider_message_id = inbox_emails[i].provider_message_id
  /\ \A i \in DOMAIN inbox_emails' \ DOMAIN inbox_emails :
       /\ inbox_emails'[i].status = "RECEIVED"
       /\ inbox_emails'[i].transaction_id = Null

\* C19: the inbox row is inserted (RECEIVED) before any transaction lookup or
\* mutation: a delivery that is past the insert, or that mutated a
\* transaction, has its inbox row, and no later step or failure removes it.
C19_InboxRowFirst ==
  /\ [](\A r \in ReqIds : PastInsert(r) => Logged(r))
  /\ [][InboxIsAppendOnly]_vars

\* C19 witness: a delivery wrote to its transaction, a later step failed and
\* the delivery was answered with an error; its inbox row is in place
C19_Witness ==
  \E r \in ReqIds :
    /\ InboundDone(r)
    /\ req[r].mutated
    /\ ~req[r].resp.ok
    /\ Logged(r)

\* the subject of r's message holds no file number, or no transaction has it
NoMatch(r) ==
  \/ req[r].fileNumber = Null
  \/ SelectTxByFileNumber(transactions, req[r].fileNumber) = NoTx

\* request r logged its message, found no transaction for it and was
\* answered by the route (not by its catch block)
AnsweredUnmatched(r) ==
  /\ InboundDone(r)
  /\ req[r].inserted # 0
  /\ NoMatch(r)
  /\ req[r].resp # HandlerFailed

\* C20: a delivery with no file number in its subject, or with one that no
\* transaction has, leaves its inbox row UNASSIGNED with no transaction
\* back-reference, is answered with success, and modified no transaction.
C20_NoMatchIsUnassigned ==
  \A r \in ReqIds :
    AnsweredUnmatched(r)
    => /\ inbox_emails[req[r].inserted].status = "UNASSIGNED"
       /\ inbox_emails[req[r].inserted].transaction_id = Null
       /\ req[r].resp.ok
       /\ ~req[r].mutated

\* the part of C20 that holds: the row has no back-reference, the answer is
\* a success and no transaction was modified; the row is UNASSIGNED, or
\* still RECEIVED
C20_NoMatchTouchesNoTransaction ==
  \A r \in ReqIds :
    AnsweredUnmatched(r)
    => /\ inbox_emails[req[r].inserted].status \in {"UNASSIGNED", "RECEIVED"}
       /\ inbox_emails[req[r].inserted].transaction_id = Null
       /\ req[r].resp.ok
       /\ ~req[r].mutated
       /\ req[r].txId = Null

----------------------------------------------------------------------------
(* Claims about the automation trigger and the title-search writes *)

\* the three fields the read-back looks at are persisted on the transaction
TitleSearchPersisted(tx) ==
  /\ tx # NoTx
  /\ IsSet(tx.title_search_received_at)
  /\ HasData(tx.title_search_data)
  /\ tx.workflow_status = "TITLE_SEARCH_RECEIVED"

\* delivery r fetched the automation, and the automation answered a failure
TriggerFailed(r) ==
  /\ req[r].op = "inbound"
  /\ "auOk" \in DOMAIN req[r]
  /\ ~req[r].auOk

\* a step in which delivery r enters the automation does so from the
\* read-back, the read-back was answered, and the row it read is persisted
TriggerFollowsReadBack(r) ==
  (req[r].op = "inbound" /\ req[r].pc # "au_load" /\ req'[r].pc = "au_load")
  => /\ req[r].pc = "ib_verify"
     /\ faults' = faults
     /\ TitleSearchPersisted(SelectTx(transactions, req[r].txId))

\* C21: the automation is triggered only after the read-back confirmed the
\* title-search fields and TITLE_SEARCH_RECEIVED; when the automation fails,
\* a delivery that the route answered is answered "Inbound email processed",
\* and when the trigger's failure is the only failure its inbox row ends
\* PROCESSED.
C21_TriggerAfterVerifiedSave ==
  /\ [][\A r \in ReqIds : TriggerFollowsReadBack(r)]_vars
  /\ [](\A r \in ReqIds :
          (InboundDone(r) /\ TriggerFailed(r) /\ req[r].resp # HandlerFailed)
          => /\ req[r].resp = Response(TRUE, 200, "Inbound email processed")
             /\ faults = InboundFaults - 1
                  => inbox_emails[req[r].inserted].status = "PROCESSED")

\* C21 witness: the automation triggered by a delivery failed, the delivery
\* was answered with success and its inbox row is PROCESSED
C21_Witness ==
  \E r \in ReqIds :
    /\ InboundDone(r)
    /\ TriggerFailed(r)
    /\ req[r].resp.ok
    /\ inbox_emails[req[r].inserted].status = "PROCESSED"
    /\ TitleSearchPersisted(transactions[req[r].txId])

StepFailures ==
  {"Matched email but failed to update transaction (step A)",
   "Matched email but failed to update transaction (step B)"}

\* a step in which delivery r gives up one of the two title-search writes
GivesUpWrite(r) ==
  /\ req[r].op = "inbound"
  /\ req[r].pc \in {"ib_step_a", "ib_step_b"}
  /\ req'[r].pc \in {"ib_error", "done"}

\* C22: the title-search writes A and B are each retried up to the retry
\* bound when they fail: a delivery gives up a write only at its last attempt.
\* A failure of B is reported with another message than a failure of A, the
\* inbox row is marked ERROR and the automation is not triggered.
C22_WritesRetriedToBound ==
  [][\A r \in ReqIds :
       GivesUpWrite(r) => req[r].attempt + 1 = RetryFnAttempts]_vars

\* the part of C22 that holds: a delivery answered with the failure of step A
\* or step B is answered 500 with the message of that step, did not trigger
\* the automation, and its inbox row is ERROR when the write was the only
\* failure; after a failure of step B the write of step A is in place
C22_FailuresAreReported ==
  \A r \in ReqIds :
    (InboundDone(r) /\ req[r].resp.message \in StepFailures)
    => /\ ~req[r].resp.ok /\ req[r].resp.code = 500
       /\ req[r].resp.message = req[r].errMsg
       /\ "auOk" \notin DOMAIN req[r]
       /\ faults = InboundFaults - 1
            => inbox_emails[req[r].inserted].status = "ERROR"
       /\ req[r].resp.message = "Matched email but failed to update transaction (step B)"
            => IsSet(transactions[req[r].txId].title_search_received_at)

----------------------------------------------------------------------------
(* TransactionDetailPage: the checklist, its label and the client email *)

\* lines 335-351: the rank table; a status it does not list has rank 0
workflowRank(status) ==
  CASE status = "TRANSACTION_CREATED" -> 10
    [] status = "APS_UPLOADED" -> 20
    [] status = "APS_EXTRACTED" -> 30
    [] status = "APS_EXTRACTED_AWAITING_EMAIL" -> 31
    [] status = "CLIENT_INTAKE_READY" -> 40
    [] status = "CLIENT_INTAKE_COMPLETED" -> 50
    [] status = "TITLE_SEARCH_RECEIVED" -> 60
    [] status = "REQUISITION_DRAFT_READY" -> 70
    [] status = "REQUISITION_SENT_TO_LAWYER" -> 80
    [] status = "REQUISITION_APPROVED" -> 90
    [] status = "REQUISITION_SENT_TO_VENDOR" -> 100
    [] status = "CLOSED" -> 999
    [] OTHER -> 0

\* a comparison that wants a strictly higher rank
atLeastStrict(tx, status) == workflowRank(tx.workflow_status) > workflowRank(status)

\* lines 353-354: currentRank >= (workflowRank[status] ?? 0)
atLeast(tx, status) == workflowRank(tx.workflow_status) >= workflowRank(status)

\* a ChecklistRow; detail is Null where the code leaves it undefined
ChecklistRow(key, label, status, detail) ==
  [key |-> key, label |-> label, status |-> status, detail |-> detail]

\* lines 459-473
IncomingDocRows ==
  <<[key |-> "reply_to_requisitions", label |-> "Reply to requisitions"],
    [key |-> "statement_of_adjustments", label |-> "Statement of Adjustments"],
    [key |-> "closing_documents", label |-> "Closing documents"],
    [key |-> "hst", label |-> "HST"],
    [key |-> "stat_dec_residency", label |-> "Statutory Declaration - residency"],
    [key |-> "stat_dec_spousal", label |-> "Statutory Declaration - spousal status"],
    [key |-> "undertakings", label |-> "Undertakings"],
    [key |-> "uff_warranty", label |-> "UFF Warranty"],
    [key |-> "bill_of_sale", label |-> "Bill of Sale"],
    [key |-> "doc_registration_agreement", label |-> "Document registration agreement"],
    [key |-> "signature_required", label |-> "Signature required"],
    [key |-> "lawyers_undertaking_vendor_mortgage",
     label |-> "Lawyer's Undertaking - vendor mortgage"],
    [key |-> "payout_statement_mortgage", label |-> "Payout statement of mortgage"]>>

\* an intake row that is blocked until the intake is done
IntakeRowStatusBlocked(intakeDone, hasEmail) ==
  IF intakeDone THEN "DONE" ELSE "BLOCKED"

\* line 376
IntakeRowStatus(intakeDone, hasEmail) ==
  IF intakeDone THEN "DONE" ELSE IF hasEmail THEN "PENDING" ELSE "BLOCKED"

\* a draft row that looks at the draft fields alone
ReqDraftRowStatusFieldsOnly(tx, reqDraftDone, titleSearchDone) ==
  IF reqDraftDone THEN "DONE"
  ELSE IF titleSearchDone THEN "PENDING" ELSE "BLOCKED"

\* lines 389-394
ReqDraftRowStatus(tx, reqDraftDone, titleSearchDone) ==
  IF reqDraftDone \/ atLeast(tx, "REQUISITION_DRAFT_READY")
  THEN "DONE"
  ELSE IF titleSearchDone THEN "PENDING" ELSE "BLOCKED"

\* lines 310-437: the ten steps; docs is the set of document rows the page
\* loaded
deriveChecklistSteps(tx, docs) ==
  LET apsDocs == {d \in docs : d.type = "APS"}
      apsUploaded == apsDocs # {}
      apsExtracted == \E d \in apsDocs : d.status = "EXTRACTED" \/ HasData(d.extracted_json)
      hasEmail == Truthy(tx.client_email)
      intakeDone == IsSet(tx.client_intake_completed_at) \/ HasData(tx.client_intake_data)
      titleSearchDone == IsSet(tx.title_search_received_at) \/ HasData(tx.title_search_data)
      reqDraftDone == \/ Truthy(tx.requisition_letter_draft)
                      \/ Truthy(tx.requisition_letter_draft_html)
                      \/ IsSet(tx.requisition_letter_generated_at)
  IN
  <<ChecklistRow("created", "Transaction created", "DONE", Null),
    ChecklistRow("aps_uploaded", "APS uploaded",
                 IF apsUploaded THEN "DONE" ELSE "PENDING", Null),
    ChecklistRow("aps_extracted", "APS extracted",
                 IF apsExtracted THEN "DONE"
                 ELSE IF apsUploaded THEN "PENDING" ELSE "BLOCKED",
                 IF ~apsUploaded THEN "Upload APS first" ELSE Null),
    ChecklistRow("email", "Client email on file",
                 IF hasEmail THEN "DONE" ELSE "PENDING", Null),
    ChecklistRow("intake", "Client intake completed",
                 IntakeRowStatus(intakeDone, hasEmail),
                 IF ~hasEmail /\ ~intakeDone
                 THEN "Add client email to send intake" ELSE Null),
    ChecklistRow("title_search", "Title search received",
                 IF titleSearchDone THEN "DONE" ELSE "PENDING", Null),
    ChecklistRow("req_draft", "Requisition letter drafted",
                 ReqDraftRowStatus(tx, reqDraftDone, titleSearchDone),
                 IF ~titleSearchDone /\ ~reqDraftDone
                 THEN "Await title search details" ELSE Null),
    ChecklistRow("req_sent_lawyer", "Requisition sent to lawyer for approval",
                 IF \/ atLeast(tx, "REQUISITION_SENT_TO_LAWYER")
                    \/ atLeast(tx, "REQUISITION_APPROVED")
                    \/ atLeast(tx, "REQUISITION_SENT_TO_VENDOR")
                 THEN "DONE"
                 ELSE IF reqDraftDone THEN "PENDING" ELSE "BLOCKED",
                 IF ~reqDraftDone THEN "Generate requisition draft first" ELSE Null),
    ChecklistRow("req_approved", "Requisition approved by lawyer",
                 IF \/ atLeast(tx, "REQUISITION_APPROVED")
                    \/ atLeast(tx, "REQUISITION_SENT_TO_VENDOR")
                 THEN "DONE"
                 ELSE IF atLeast(tx, "REQUISITION_SENT_TO_LAWYER")
                 THEN "PENDING" ELSE "BLOCKED",
                 IF ~atLeast(tx, "REQUISITION_SENT_TO_LAWYER")
                 THEN "Send to lawyer first" ELSE Null),
    ChecklistRow("req_sent_vendor", "Requisition sent to vendor solicitor",
                 IF atLeast(tx, "REQUISITION_SENT_TO_VENDOR") THEN "DONE"
                 ELSE IF atLeast(tx, "REQUISITION_APPROVED")
                 THEN "PENDING" ELSE "BLOCKED",
                 IF ~atLeast(tx, "REQUISITION_APPROVED")
                 THEN "Await lawyer approval first" ELSE Null)>>

\* lines 328-331 and 439-483: the status-certificate row and the incoming
\* documents.  The model's rows have no requisition_sent_to_vendor_at column
\* (no handler writes one), so reqSentToVendor follows workflow_status alone.
deriveChecklistExtras(tx) ==
  LET requiresStatusCert == tx.requires_status_cert = "true"
      reqSentToVendor == tx.workflow_status = "REQUISITION_SENT_TO_VENDOR"
      has(k) == \E d \in tx.incoming_docs : d.key = k
      statusCert ==
        IF requiresStatusCert
        THEN <<ChecklistRow("status_cert", "Status certificate required", "PENDING",
                            "Upload & review status certificate")>>
        ELSE <<>>
      incoming ==
        IF reqSentToVendor
        THEN <<ChecklistRow("incoming_docs_header", "Incoming docs (pre-closing)",
                            "PENDING", "Auto-tracked from vendor solicitor emails")>>
             \o [i \in DOMAIN IncomingDocRows |->
                   ChecklistRow("incoming_" \o IncomingDocRows[i].key,
                                IncomingDocRows[i].label,
                                IF has(IncomingDocRows[i].key) THEN "DONE" ELSE "PENDING",
                                IF has(IncomingDocRows[i].key)
                                THEN "Received via inbound email" ELSE Null)]
        ELSE <<>>
  IN statusCert \o incoming

\* a deriver that puts the conditional rows first
deriveChecklistExtrasFirst(tx, docs) ==
  deriveChecklistExtras(tx) \o deriveChecklistSteps(tx, docs)

\* lines 310-487
deriveChecklist(tx, docs) ==
  deriveChecklistSteps(tx, docs) \o deriveChecklistExtras(tx)

\* lines 295-304
LabelOfKey ==
  [created |-> "TRANSACTION_CREATED", aps_uploaded |-> "APS_UPLOAD_REQUIRED",
   aps_extracted |-> "APS_EXTRACTION_REQUIRED", email |-> "CLIENT_EMAIL_REQUIRED",
   intake |-> "CLIENT_INTAKE_PENDING", title_search |-> "TITLE_SEARCH_PENDING",
   req_draft |-> "REQUISITION_DRAFT_PENDING", status_cert |-> "STATUS_CERT_REQUIRED"]

\* line 306: label.toUpperCase().replace(/\s+/g, '_'), on the labels of the
\* rows the map above does not list (the en dash of two labels is written -)
UpperSnake(label) ==
  CASE label = "Requisition sent to lawyer for approval"
         -> "REQUISITION_SENT_TO_LAWYER_FOR_APPROVAL"
    [] label = "Requisition approved by lawyer" -> "REQUISITION_APPROVED_BY_LAWYER"
    [] label = "Requisition sent to vendor solicitor"
         -> "REQUISITION_SENT_TO_VENDOR_SOLICITOR"
    [] label = "Incoming docs (pre-closing)" -> "INCOMING_DOCS_(PRE-CLOSING)"
    [] label = "Reply to requisitions" -> "REPLY_TO_REQUISITIONS"
    [] label = "Statement of Adjustments" -> "STATEMENT_OF_ADJUSTMENTS"
    [] label = "Closing documents" -> "CLOSING_DOCUMENTS"
    [] label = "HST" -> "HST"
    [] label = "Statutory Declaration - residency"
         -> "STATUTORY_DECLARATION_-_RESIDENCY"
    [] label = "Statutory Declaration - spousal status"
         -> "STATUTORY_DECLARATION_-_SPOUSAL_STATUS"
    [] label = "Undertakings" -> "UNDERTAKINGS"
    [] label = "UFF Warranty" -> "UFF_WARRANTY"
    [] label = "Bill of Sale" -> "BILL_OF_SALE"
    [] label = "Document registration agreement" -> "DOCUMENT_REGISTRATION_AGREEMENT"
    [] label = "Signature required" -> "SIGNATURE_REQUIRED"
    [] label = "Lawyer's Undertaking - vendor mortgage"
         -> "LAWYER'S_UNDERTAKING_-_VENDOR_MORTGAGE"
    [] label = "Payout statement of mortgage" -> "PAYOUT_STATEMENT_OF_MORTGAGE"

\* lines 289-307: the label of the first row that is not DONE
deriveWorkflowStatusFromChecklist(rows) ==
  LET open == {i \in DOMAIN rows : rows[i].status # "DONE"}
  IN IF open = {} THEN "READY_FOR_CLOSING"
     ELSE LET current == rows[CHOOSE i \in open : \A j \in open : i <= j]
          IN IF current.key \in DOMAIN LabelOfKey
             THEN LabelOfKey[current.key]
             ELSE UpperSnake(current.label)

\* the documents of transaction t, as loadTransactionData selects them
DocsOf(t) == {documents[d] : d \in {e \in DocIds : documents[e].present
                                                    /\ documents[e].transaction_id = t}}

DocIdSeq == <<"d1", "d2">>

\* the id the store gives the next documents row
NextDocId(docs) ==
  DocIdSeq[CHOOSE i \in DOMAIN DocIdSeq :
             /\ ~docs[DocIdSeq[i]].present
             /\ \A j \in DOMAIN DocIdSeq : ~docs[DocIdSeq[j]].present => i <= j]

\* the document types the upload form offers
UploadTypes == {"APS", "STATUS_CERT"}

\* lines 726-776: store the file, insert the documents row (UPLOADED)
handleUpload(t, type) ==
  /\ transactions[t].present
  /\ \E d \in DocIds : ~documents[d].present
  /\ \E o \in WriteOutcomes :
       /\ Allowed(o)
       /\ faults' = Charge(o)
       /\ documents' =
            IF Applied(o)
            THEN [documents EXCEPT ![NextDocId(documents)] =
                    [ApsDocument(NextDocId(documents), t) EXCEPT !.type = type]]
            ELSE documents
  /\ UNCHANGED <<transactions, approval_links, inbox_emails, email_outbox,
                 provider_sent, now, env, req>>

\* lines 877-887: the workflow_status handleSaveEmail writes
SaveEmailStatus(transaction, docs, editableEmail) ==
  LET hasEmail == Truthy(editableEmail)
      hasExtractedAps == \E d \in docs : /\ d.type = "APS"
                                         /\ d.status = "EXTRACTED"
                                         /\ HasData(d.extracted_json)
      intakeDone == IsSet(transaction.client_intake_completed_at)
  IN IF hasExtractedAps /\ ~intakeDone
     THEN IF hasEmail THEN "CLIENT_INTAKE_READY" ELSE "CLIENT_EMAIL_REQUIRED"
     ELSE transaction.workflow_status

\* what the operator can leave in the email field
EditableEmails == {"", "client@mail"}

\* lines 871-887: Save in the client email card; transaction and documents are
\* the page's copies
handleSaveEmailStart(r, t, editableEmail) ==
  /\ req[r].pc = "idle"
  /\ transactions[t].present
  /\ req' = [req EXCEPT ![r] =
               [op |-> "save_email", pc |-> "se_save", transaction |-> transactions[t],
                pageDocs |-> DocsOf(t), editableEmail |-> editableEmail,
                after |-> Answered]]
  /\ UNCHANGED <<tables, provider_sent, now, faults, env>>

\* lines 889-916: update client_email and workflow_status; with an extracted
\* APS the intake email is posted to /api/email/send, addressed to the
\* page's copy of client_email
handleSaveEmailSave(r) ==
  /\ req[r].pc = "se_save"
  /\ \E o \in WriteOutcomes :
       /\ Allowed(o)
       /\ faults' = Charge(o)
       /\ transactions' =
            IF Applied(o)
            THEN UpdateTx(transactions, req[r].transaction.id,
                   [client_email |-> IF Truthy(req[r].editableEmail)
                                     THEN req[r].editableEmail ELSE Null,
                    workflow_status |->
                      SaveEmailStatus(req[r].transaction, req[r].pageDocs,
                                      req[r].editableEmail)])
            ELSE transactions
       /\ req' =
            IF o # "ok"
            THEN Return(r, Toast(FALSE, "Failed to update client email"))
            ELSE IF \E d \in req[r].pageDocs : /\ d.type = "APS"
                                               /\ d.status = "EXTRACTED"
                                               /\ HasData(d.extracted_json)
            THEN CallEmailSend(r, Mail(req[r].transaction.id, "CLIENT_INTAKE",
                                       req[r].transaction.client_email), "se_reload")
            ELSE Return(r, Toast(TRUE, "Client email updated"))
  /\ UNCHANGED <<approval_links, inbox_emails, documents, email_outbox,
                 provider_sent, now, env>>

\* lines 917-918: the send's answer is dropped, the page reloads
handleSaveEmailReload(r) ==
  /\ req[r].pc = "se_reload"
  /\ req' = Return(r, Toast(TRUE, "Client email updated"))
  /\ UNCHANGED <<tables, provider_sent, now, faults, env>>

\* lines 1258-1283: the page renders the checklist and the badge
Render(r, t) ==
  /\ req[r].pc = "idle"
  /\ transactions[t].present
  /\ LET rows == deriveChecklist(transactions[t], DocsOf(t))
     IN req' = [req EXCEPT ![r] =
                  [op |-> "render", pc |-> "done", transactionId |-> t, rows |-> rows,
                   derivedWorkflow |-> deriveWorkflowStatusFromChecklist(rows),
                   after |-> Answered, resp |-> Toast(TRUE, "rendered")]]
  /\ UNCHANGED <<tables, provider_sent, now, faults, env>>

----------------------------------------------------------------------------
(* The dashboard: a transaction is created, its APS uploaded and extracted,
   the operator saves the client email and looks at the checklist *)

DashboardFaults == 1
\* intake emails the operator's saves may queue
MaxMails == 1

InitDashboard ==
  /\ transactions = [t \in TxIds |-> NoTx]
  /\ approval_links = <<>>
  /\ inbox_emails = <<>>
  /\ documents = [d \in DocIds |-> NoDoc]
  /\ email_outbox = <<>>
  /\ provider_sent = <<>>
  /\ now = MaxTime
  /\ faults = DashboardFaults
  /\ env = EnvConfigured
  /\ req = [r \in ReqIds |-> Idle]

\* r1 is the operator's page, r2 the extraction it posts; one transaction is
\* created, one document uploaded and one extraction run
NextDashboard ==
  \/ (\A t \in TxIds : ~transactions[t].present) /\ CreateStart("r1")
  \/ CreateInsert("r1")
  \/ CreateVerify("r1")
  \/ \E type \in UploadTypes :
       (\A d \in DocIds : ~documents[d].present) /\ handleUpload("t1", type)
  \/ ExtractStart("r2", DocIds)
  \/ ExtractSavingSteps("r2", {WorkflowAps})
  \/ \E e \in EditableEmails :
       Len(email_outbox) < MaxMails /\ handleSaveEmailStart("r1", "t1", e)
  \/ handleSaveEmailSave("r1")
  \/ handleSaveEmailReload("r1")
  \/ EmailSend("r1")
  \/ Render("r1", "t1")
  \/ Leave("r1")

SpecDashboard == InitDashboard /\ [][NextDashboard]_vars

----------------------------------------------------------------------------
(* Claims about the checklist and the persisted workflow_status *)

\* the labels deriveWorkflowStatusFromChecklist produces for the rows it maps
DerivedLabels ==
  {"APS_UPLOAD_REQUIRED", "APS_EXTRACTION_REQUIRED", "CLIENT_EMAIL_REQUIRED",
   "CLIENT_INTAKE_PENDING", "TITLE_SEARCH_PENDING", "REQUISITION_DRAFT_PENDING",
   "STATUS_CERT_REQUIRED", "READY_FOR_CLOSING"}

\* a step in which the page renders the checklist of a transaction
Renders(r) == req[r].pc = "idle" /\ req'[r].op = "render"

\* C23: no operation persists a checklist-derived label as workflow_status:
\* no transaction's workflow_status is one of the deriver's labels, and
\* rendering the checklist and its label leaves every transaction unchanged.
C23_NoDerivedLabelPersisted ==
  /\ [](\A t \in TxIds : transactions[t].workflow_status \notin DerivedLabels)
  /\ [][\A r \in ReqIds : Renders(r) => transactions' = transactions]_vars

\* the part of C23 that holds: rendering writes nothing, and a derived label
\* enters workflow_status only by the save of the client email
C23_OnlySaveEmailPersistsLabel ==
  [][/\ \A r \in ReqIds : Renders(r) => transactions' = transactions
     /\ \A t \in TxIds :
          ( /\ transactions'[t].workflow_status \in DerivedLabels
            /\ transactions[t].workflow_status \notin DerivedLabels )
          => /\ req["r1"].pc = "se_save"
             /\ transactions'[t].workflow_status = "CLIENT_EMAIL_REQUIRED"]_vars

\* no step removes a transaction or changes its file_number
FileNumberKept ==
  \A t \in TxIds :
    transactions[t].present
    => /\ transactions'[t].present
       /\ transactions'[t].file_number = transactions[t].file_number

----------------------------------------------------------------------------
(* The checklist as a function: every combination of the stored facts *)

\* the workflow_status values a row can hold: the workflow's statuses, none,
\* and the label handleSaveEmail writes
ChecklistStatuses == WorkflowStatuses \cup {Null, "CLIENT_EMAIL_REQUIRED"}

\* the documents the page can have loaded for the transaction
ChecklistDocs ==
  {NoDoc,
   ApsDocument("d1", "t1"),
   [ApsDocument("d1", "t1") EXCEPT !.status = "EXTRACTED",
                                   !.extracted_json = <<"aps_earlier">>],
   [ApsDocument("d1", "t1") EXCEPT !.extracted_json = <<"aps_earlier">>],
   [ApsDocument("d1", "t1") EXCEPT !.type = "STATUS_CERT"]}

InitChecklist ==
  /\ \E ws \in ChecklistStatuses,
        email \in {Null, "client@mail"},
        lawyer \in {Null, "counsel@firm"},
        intake \in {NoTime, 0},
        title \in {NoData, <<"title_facts">>},
        draft \in {Null, "requisition_text"},
        generated \in {NoTime, 0},
        cert \in {"true", "false"},
        incoming \in {NoDocs, TickDocs(NoDocs, {"undertakings"}, 0, 1)} :
       transactions =
         [t \in TxIds |->
            IF t = "t1"
            THEN [CreatedTx("t1", "251220-9452", email) EXCEPT
                    !.workflow_status = ws, !.lawyer_email = lawyer,
                    !.client_intake_completed_at = intake,
                    !.title_search_data = title,
                    !.requisition_letter_draft = draft,
                    !.requisition_letter_generated_at = generated,
                    !.requires_status_cert = cert,
                    !.incoming_docs = incoming]
            ELSE NoTx]
  /\ \E d1 \in ChecklistDocs :
       documents = [d \in DocIds |-> IF d = "d1" THEN d1 ELSE NoDoc]
  /\ approval_links = <<>>
  /\ inbox_emails = <<>>
  /\ email_outbox = <<>>
  /\ provider_sent = <<>>
  /\ now = MaxTime
  /\ faults = 0
  /\ env = EnvConfigured
  /\ req = [r \in ReqIds |-> Idle]

NextChecklist == Render("r1", "t1")

SpecChecklist == InitChecklist /\ [][NextChecklist]_vars

\* the fields of a transaction and of a document that section 4.2 of the
\* specification enumerates for the checklist
ChecklistTxFields ==
  {"client_email", "client_intake_completed_at", "client_intake_data",
   "title_search_received_at", "title_search_data", "requisition_letter_draft",
   "requisition_letter_draft_html", "requisition_letter_generated_at",
   "workflow_status", "requires_status_cert", "incoming_docs"}
ChecklistDocFields == {"type", "status", "extracted_json"}

\* the row with every other field blanked
OnlyFields(row, blank, fields) ==
  [f \in DOMAIN row |-> IF f \in fields THEN row[f] ELSE blank[f]]

ChecklistOrder ==
  <<"created", "aps_uploaded", "aps_extracted", "email", "intake", "title_search",
    "req_draft", "req_sent_lawyer", "req_approved", "req_sent_vendor">>

Rendered(r) == req[r].op = "render" /\ req[r].pc = "done"

RankedStatuses == ChecklistStatuses \cup {"APS_UPLOADED", "APS_EXTRACTED"}

\* C26: ranks order the statuses totally (the current status and any other
\* are comparable, and atLeast is transitive along the ranks) with CLOSED
\* strictly highest: for a transaction
\* whose workflow_status is CLOSED atLeast(S) is true for every status S, and
\* for no other current status is atLeast(CLOSED) true.
C26_ClosedHasHighestRank ==
  /\ \A s \in RankedStatuses \ {"CLOSED"} : workflowRank(s) < workflowRank("CLOSED")
  /\ \A t \in TxIds :
       transactions[t].present
       => LET tx == transactions[t]
          IN /\ \A b \in RankedStatuses :
                  atLeast(tx, b) \/ workflowRank(b) >= workflowRank(tx.workflow_status)
             /\ \A b, c \in RankedStatuses :
                  (atLeast(tx, b) /\ workflowRank(b) >= workflowRank(c))
                  => atLeast(tx, c)
             /\ tx.workflow_status = "CLOSED"
                  => \A s \in RankedStatuses : atLeast(tx, s)
             /\ atLeast(tx, "CLOSED") => tx.workflow_status = "CLOSED"

\* C26 witness: the checklist of a CLOSED transaction with no draft and no
\* title search was rendered, and its requisition rows are DONE by rank
C26_Witness ==
  /\ Rendered("r1")
  /\ transactions["t1"].workflow_status = "CLOSED"
  /\ ~Truthy(transactions["t1"].requisition_letter_draft)
  /\ \A i \in 7..10 : req["r1"].rows[i].status = "DONE"

----------------------------------------------------------------------------
(* The end-to-end trace: created, APS uploaded, APS extracted *)

\* the status of the checklist row with the given key
RowStatus(rows, key) ==
  rows[CHOOSE i \in DOMAIN rows : rows[i].key = key].status

\* a step that inserts transaction t
IsCreated(t) == ~transactions[t].present /\ transactions'[t].present

\* a step with which the extraction r returns success for a transaction
\* that had no client email when the extraction read it and has none now
ExtractSucceedsWithoutEmail(r, t) ==
  /\ req[r].op = "extract" /\ req[r].pc # "done"
  /\ req'[r].pc = "done" /\ req'[r].resp.ok
  /\ documents'[req[r].documentId].transaction_id = t
  /\ ~Truthy(req'[r].txSnap.client_email)
  /\ ~Truthy(transactions'[t].client_email)

\* the APS of transaction t is uploaded and no APS of it is extracted
ApsUploadedOnly(t) ==
  /\ \E d \in DocsOf(t) : d.type = "APS"
  /\ \A d \in DocsOf(t) :
       d.type = "APS" => d.status = "UPLOADED" /\ ~HasData(d.extracted_json)

----------------------------------------------------------------------------
(* Matching an inbound email to its transaction *)

MatchFaults == 1

\* deliveries for three files: the firm-prefixed number alone, in lower case,
\* and after a dated token
MatchEmails ==
  {InboundEmail("m1", <<"Re", "AIC-2025-000123">>, "lawyer@firm", <<>>, {"undertaking"}),
   InboundEmail("m5", <<"Re", "aic-2025-000123">>, "lawyer@firm", <<>>, {}),
   InboundEmail("m6", <<"251221-0007", "AIC-2025-000124">>, "clerk@firm", <<>>, {})}

InitMatch ==
  /\ transactions =
       [t \in TxIds |->
          IF t = "t1" THEN IntakeCompletedTx("t1", "AIC-2025-000123", Null)
          ELSE IF t = "t2" THEN IntakeCompletedTx("t2", "AIC-2025-000124", Null)
          ELSE IntakeCompletedTx("t3", "251221-0007", Null)]
  /\ approval_links = <<>>
  /\ inbox_emails = <<>>
  /\ documents = [d \in DocIds |-> NoDoc]
  /\ email_outbox = <<>>
  /\ provider_sent = <<>>
  /\ now = MaxTime
  /\ faults = MatchFaults
  /\ env = [EnvConfigured EXCEPT !.app_public_url = FALSE]
  /\ req = [r \in ReqIds |-> Idle]

NextMatch ==
  \/ \E r \in ReqIds : InboundStart(r, MatchEmails)
  \/ \E r \in ReqIds : InboundSteps(r)

SpecMatch == InitMatch /\ [][NextMatch]_vars

\* the tokens of a subject
TokensOf(subject) == {subject[i] : i \in DOMAIN subject}

\* delivery r was matched to transaction t
MatchedTo(r, t) == req[r].op = "inbound" /\ req[r].txId = t

\* C28: a delivery is matched to a transaction only when the token taken
\* from its subject equals the transaction's file_number exactly, the
\* firm-prefixed pattern first: a subject with AIC-2025-000123 is matched to
\* the transaction with that file_number (when every step is answered) and
\* never to the one with AIC-2025-000124.
C28_MatchIsExact ==
  \A r \in ReqIds :
    /\ \A t \in TxIds :
         MatchedTo(r, t)
         => /\ transactions[t].file_number \in TokensOf(req[r].email.subject)
            /\ TokensOf(req[r].email.subject) \cap FirmTokens # {}
                 => transactions[t].file_number \in FirmTokens
            /\ inbox_emails[req[r].inserted].transaction_id \in {Null, t}
    /\ (req[r].op = "inbound" /\ "AIC-2025-000123" \in TokensOf(req[r].email.subject))
       => /\ ~MatchedTo(r, "t2") /\ ~MatchedTo(r, "t3")
          /\ (InboundDone(r) /\ faults = MatchFaults /\ req[r].inserted # 0)
               => /\ MatchedTo(r, "t1")
                  /\ inbox_emails[req[r].inserted].transaction_id = "t1"

\* C28 witness: the delivery with AIC-2025-000123 was processed for t1, and
\* the delivery whose subject has a dated token before AIC-2025-000124 was
\* processed for t2
C28_Witness ==
  \E a, b \in ReqIds :
    /\ InboundDone(a) /\ req[a].email.provider_message_id = "m1"
    /\ MatchedTo(a, "t1") /\ inbox_emails[req[a].inserted].status = "PROCESSED"
    /\ InboundDone(b) /\ req[b].email.provider_message_id = "m6"
    /\ MatchedTo(b, "t2") /\ inbox_emails[req[b].inserted].status = "PROCESSED"
    /\ IsSet(transactions["t2"].title_search_received_at)
    /\ ~IsSet(transactions["t3"].title_search_received_at)

----------------------------------------------------------------------------
(* The requisition letter: lib/requisition-text.ts and lib/requisition-html.ts *)

\* String.prototype.trim on the strings of this model
Trim(x) ==
  CASE x = "  " -> ""
    [] x = " Writs clear " -> "Writs clear"
    [] OTHER -> x

\* requisition-text.ts 19-24, requisition-html.ts 18-23: keep the non-blank
\* strings, trimmed
NonBlank(x) == Trim(x) # ""
safeLines(items) ==
  LET kept == SelectSeq(items, NonBlank)
  IN [i \in 1..Len(kept) |-> Trim(kept[i])]
safeList(items) == safeLines(items)

\* esc: & < > " become entities; only this string of the model holds one
esc(x) == IF x = "Taxes & arrears" THEN "Taxes &amp; arrears" ELSE x

\* requisition-text.ts 26-31: `${n++}. ${line}` for every line
wrapNumbered(lines, startAt) ==
  [i \in 1..Len(lines) |-> [n |-> startAt + i - 1, line |-> lines[i]]]

\* requisition-text.ts 65-69
baseRequisitions ==
  <<"Please provide a draft Transfer/Deed for approval prior to registration.",
    "Please provide the Statement of Adjustments in advance of closing for review and approval.",
    "Please confirm keys/fobs will be made available on completion.">>

\* requisition-text.ts 33-104; of the letter, the numbered block
buildRequisitionText(transaction, profile, appended) ==
  LET extra == safeLines(appended)
      allRequisitions == baseRequisitions \o extra
  IN [requisitions |-> IF Len(allRequisitions) > 0
                       THEN wrapNumbered(allRequisitions, 1)
                       ELSE <<>>]

\* toUpperCase and toLowerCase-includes on the values of this model
ToUpperCase(x) == IF x = "condo" THEN "CONDO" ELSE x
looksTorontoOrOttawa(address) ==
  address \in {"1 King St W, Toronto", "22 Bank St, OTTAWA"}

\* part_009 47-63: the pin of the title data (no note of the model holds one)
extractPin(title) == title.pin

\* part_009 94
RequiresStatusCert(transaction) ==
  \/ transaction.requires_status_cert = "true"
  \/ ToUpperCase(IF transaction.property_type = Null THEN ""
                 ELSE transaction.property_type) = "CONDO"

\* part_009 100-179: the fifteen clauses every letter has, by their opening words
HtmlBase(clientName, pin) ==
  <<IF Truthy(clientName) THEN "REQUIRED: Draft Transfer of Land (client)"
    ELSE "REQUIRED: Draft Transfer of Land (Purchaser name)",
    "REQUIRED: Statement of Adjustments and a recent property tax bill.",
    "REQUIRED: evidence of compliance with the following legislation",
    "REQUIRED: no executions affecting title",
    "REQUIRED: buildings within the limits, no undisclosed encumbrances",
    "REQUIRED: no work orders outstanding",
    "REQUIRED: no arrears of taxes or utilities",
    "REQUIRED: no urea-formaldehyde foam insulation",
    "REQUIRED: fixtures and chattels free of liens",
    "REQUIRED: final inspection",
    "REQUIRED: keys and vacant possession",
    IF pin # Null THEN "REQUIRED: Insertion of the PIN Number, being (pin)"
    ELSE "REQUIRED: Insertion of the PIN Number",
    "REQUIRED: not subject to Harmonized Sales Tax",
    "REQUIRED: vendor to execute and provide documents",
    "REQUIRED: use of the unit complies with municipal by-laws">>

\* part_009 182-200
StatusCertClauses ==
  <<"REQUIRED: Status Certificate in accordance with the Condominium Act",
    "REQUIRED: Copies of Condominium by-laws and regulations.",
    "REQUIRED: directors and officers of the Condominium Corporation",
    "REQUIRED: monies borrowed by the Condominium Corporation",
    "REQUIRED: no unsatisfied judgments against the Condominium Corporation",
    "REQUIRED: no notice convening a meeting of the unit owners">>

\* part_009 203-207
VacantTaxClause == "REQUIRED: Vacant Home Tax/Vacant Unit Tax compliance"

\* part_009 65-283; of the letter, the items of the <ol>
buildRequisitionHtml(transaction, profile, title, appended) ==
  LET pin == extractPin(title)
      requiresStatusCert == RequiresStatusCert(transaction)
      needsVacantTax == looksTorontoOrOttawa(transaction.property_address)
      base == HtmlBase(transaction.client_name, pin)
                \o (IF requiresStatusCert THEN StatusCertClauses ELSE <<>>)
                \o (IF needsVacantTax THEN <<VacantTaxClause>> ELSE <<>>)
      blended == base \o safeList(appended)
  IN [ol |-> [i \in 1..Len(blended) |-> esc(blended[i])]]

\* src/lib/requisition-html.ts 40-44
baseRequisitionsHtml ==
  <<"Please provide a draft transfer/deed for approval prior to registration.",
    "Please provide the statement of adjustments in advance of closing for review and approval.",
    "Please confirm the keys/fobs will be made available on completion.">>

\* src/lib/requisition-html.ts 21-110, the other module of that name
buildRequisitionHtmlLib(transaction, profile, title, appended) ==
  LET blended == baseRequisitionsHtml \o safeList(appended)
  IN [ol |-> [i \in 1..Len(blended) |-> esc(blended[i])]]

\* which of the two modules '@/lib/requisition-html' resolves to
HtmlBuilds == {"lib/requisition-html.ts", "src/lib/requisition-html.ts"}

\* route.ts 110-122: notes then lawyer additions, blank strings dropped
Appended(titleSearch) ==
  SelectSeq(titleSearch.notes, NonBlank) \o SelectSeq(titleSearch.lawyer_additions, NonBlank)

\* route.ts 110-156: the automation builds both letters and saves them
SaveLetters(r, t) ==
  /\ req[r].pc = "idle"
  /\ transactions[t].present
  /\ transactions[t].workflow_status = "TITLE_SEARCH_RECEIVED"
  /\ \E build \in HtmlBuilds :
       LET tx == transactions[t]
           titleSearch == tx.title_search_data
           appended == Appended(titleSearch)
           html == IF build = "lib/requisition-html.ts"
                   THEN buildRequisitionHtml(tx, Null, titleSearch, appended)
                   ELSE buildRequisitionHtmlLib(tx, Null, titleSearch, appended)
           text == buildRequisitionText(tx, Null, appended)
       IN /\ transactions' =
               UpdateTx(transactions, t,
                 [requisition_letter_draft |-> text,
                  requisition_letter_draft_html |-> html,
                  requisition_letter_generated_at |-> now,
                  workflow_status |-> "REQUISITION_DRAFT_READY"])
          /\ req' = [req EXCEPT ![r] =
                       [op |-> "letters", pc |-> "done", transactionId |-> t,
                        build |-> build, snap |-> tx, appended |-> appended,
                        after |-> Answered, resp |-> Response(TRUE, 200, "Draft generated")]]
  /\ UNCHANGED <<approval_links, inbox_emails, documents, email_outbox,
                 provider_sent, now, faults, env>>

\* notes and lawyer additions a title search may hold
MaxNotes == 2
MaxAdditions == 1
NoteTexts == {"1 PIN", " Writs clear ", "  ", "Taxes & arrears"}
AdditionTexts == {"Confirm survey", "  "}
SeqsUpTo(S, n) == UNION {[1..k -> S] : k \in 0..n}

InitLetters ==
  /\ \E cert \in {"true", "false"},
        ptype \in {Null, "condo", "FREEHOLD"},
        address \in {"1 King St W, Toronto", "22 Bank St, OTTAWA", "9 Main St, Guelph"},
        pin \in {Null, "12345-6789"},
        notes \in SeqsUpTo(NoteTexts, MaxNotes),
        additions \in SeqsUpTo(AdditionTexts, MaxAdditions) :
       transactions =
         [t \in TxIds |->
            IF t = "t1"
            THEN [CreatedTx("t1", "251220-9452", "client@mail") EXCEPT
                    !.workflow_status = "TITLE_SEARCH_RECEIVED",
                    !.client_name = "A. Buyer",
                    !.property_address = address,
                    !.property_type = ptype,
                    !.requires_status_cert = cert,
                    !.title_search_received_at = 0,
                    !.title_search_data =
                       [notes |-> notes, lawyer_additions |-> additions, pin |-> pin]]
            ELSE NoTx]
  /\ approval_links = <<>>
  /\ inbox_emails = <<>>
  /\ documents = [d \in DocIds |-> NoDoc]
  /\ email_outbox = <<>>
  /\ provider_sent = <<>>
  /\ now = MaxTime
  /\ faults = 0
  /\ env = EnvConfigured
  /\ req = [r \in ReqIds |-> Idle]

NextLetters == SaveLetters("r1", "t1")

SpecLetters == InitLetters /\ [][NextLetters]_vars

\* the letters request r saved
Saved(r) == req[r].op = "letters"
TextOf(r) == transactions[req[r].transactionId].requisition_letter_draft.requisitions
HtmlOf(r) == transactions[req[r].transactionId].requisition_letter_draft_html.ol

\* the numbers a reader sees: written into the text, the item's position in
\* the <ol> of the HTML
TextNumbers(r) == [i \in 1..Len(TextOf(r)) |-> TextOf(r)[i].n]
HtmlNumbers(r) == [i \in 1..Len(HtmlOf(r)) |-> i]
Contiguous(numbers) == \A i \in 1..Len(numbers) : numbers[i] = i

\* the conditional clauses that apply to a transaction
ConditionalApplying(tx) ==
  (IF RequiresStatusCert(tx) THEN StatusCertClauses ELSE <<>>)
    \o (IF looksTorontoOrOttawa(tx.property_address) THEN <<VacantTaxClause>> ELSE <<>>)

\* the unconditional clauses of each letter
TextBaseCount == Len(baseRequisitions)
HtmlBaseCount(r) ==
  IF req[r].build = "lib/requisition-html.ts"
  THEN Len(HtmlBase(Null, Null))
  ELSE Len(baseRequisitionsHtml)

\* C29: for every combination of requires_status_cert, vacant-tax
\* applicability and N appended notes, the clauses of each generated letter
\* are numbered 1..K without gaps or repeats, K being the base clause count
\* plus the count of the conditional clauses that apply plus N.
C29_NumberedOneToK ==
  \A r \in ReqIds :
    Saved(r)
    => LET conditional == Len(ConditionalApplying(req[r].snap))
           N == Len(req[r].appended)
       IN /\ Contiguous(TextNumbers(r))
          /\ Len(TextOf(r)) = TextBaseCount + conditional + N
          /\ Contiguous(HtmlNumbers(r))
          /\ Len(HtmlOf(r)) = HtmlBaseCount(r) + conditional + N

\* C29, the part that holds: each letter's clauses are numbered 1..K without
\* gaps or repeats, K being the count of the clauses that letter's builder
\* lists: the text letter and the src/lib HTML letter never list a
\* conditional clause.
C29_NumberingContiguous ==
  \A r \in ReqIds :
    Saved(r)
    => LET conditional == Len(ConditionalApplying(req[r].snap))
           N == Len(req[r].appended)
       IN /\ Contiguous(TextNumbers(r))
          /\ Len(TextOf(r)) = TextBaseCount + N
          /\ Contiguous(HtmlNumbers(r))
          /\ Len(HtmlOf(r)) =
               HtmlBaseCount(r) + N
                 + (IF req[r].build = "lib/requisition-html.ts" THEN conditional ELSE 0)

\* the last n elements of a sequence
Tail_(s, n) == SubSeq(s, Len(s) - n + 1, Len(s))

\* the clauses of sequence c appear in s, adjacent and in order
Holds(s, c) ==
  \E k \in 0..Len(s) : k + Len(c) <= Len(s) /\ SubSeq(s, k + 1, k + Len(c)) = c

\* C30: the text letter and the HTML letter the automation saves hold the
\* same requisition clauses in the same order: the same clause count K, the
\* conditional clauses that apply in both, and the appended notes in both.
C30_LettersHoldSameClauses ==
  \A r \in ReqIds :
    Saved(r)
    => LET textLines == [i \in 1..Len(TextOf(r)) |-> TextOf(r)[i].line]
           conditional == ConditionalApplying(req[r].snap)
           N == Len(req[r].appended)
       IN /\ Len(TextOf(r)) = Len(HtmlOf(r))
          /\ Holds(textLines, conditional)
          /\ Holds(HtmlOf(r), conditional)
          /\ Tail_(HtmlOf(r), N) = [i \in 1..N |-> esc(Tail_(textLines, N)[i])]

\* C30, the part that holds: the appended notes close both letters, the same
\* notes in the same order (escaped in the HTML), after each letter's own
\* clauses.
C30_AppendedNotesAgree ==
  \A r \in ReqIds :
    Saved(r)
    => LET textLines == [i \in 1..Len(TextOf(r)) |-> TextOf(r)[i].line]
           N == Len(req[r].appended)
       IN /\ N <= Len(textLines) /\ N <= Len(HtmlOf(r))
          /\ Tail_(textLines, N) = safeLines(req[r].appended)
          /\ Tail_(HtmlOf(r), N) = [i \in 1..N |-> esc(Tail_(textLines, N)[i])]

----------------------------------------------------------------------------
(* Intake submitted more than once *)

IntakeFaults == 1

\* the forms a client may submit
SubmittedForms == {<<"form_a">>, <<"form_b">>}

\* t1 waits for its intake, or already holds the intake submitted at time 0
InitIntake ==
  /\ \E prior \in {NoData} \cup SubmittedForms :
       transactions =
         [t \in TxIds |->
            IF t = "t1"
            THEN IF prior = NoData
                 THEN [CreatedTx("t1", "251220-9452", "client@mail") EXCEPT
                         !.workflow_status = "CLIENT_INTAKE_READY"]
                 ELSE [CreatedTx("t1", "251220-9452", "client@mail") EXCEPT
                         !.workflow_status = "CLIENT_INTAKE_COMPLETED",
                         !.client_intake_data = prior,
                         !.client_intake_completed_at = 0]
            ELSE NoTx]
  /\ approval_links = <<>>
  /\ inbox_emails = <<>>
  /\ documents = [d \in DocIds |-> NoDoc]
  /\ email_outbox = <<>>
  /\ provider_sent = <<>>
  /\ now = 0
  /\ faults = IntakeFaults
  /\ env = EnvConfigured
  /\ req = [r \in ReqIds |-> Idle]

NextIntake ==
  \/ Tick
  \/ \E r \in ReqIds : IntakeStartWith(r, {"t1"}, SubmittedForms)
  \/ \E r \in ReqIds : IntakeSave(r)
  \/ \E r \in ReqIds : IntakeVerify(r)

SpecIntake == InitIntake /\ [][NextIntake]_vars

\* request r submits an intake whose update reaches the store with this step
IntakeApplied(r) ==
  /\ req[r].op = "intake" /\ req[r].pc = "in_save"
  /\ req'[r] # req[r]
  /\ transactions' # transactions

\* request r is answered with this step, ok, by message
IntakeAnswers(r, message) ==
  /\ req[r].op = "intake" /\ req[r].pc # "done"
  /\ req'[r].pc = "done" /\ req'[r].resp.ok
  /\ req'[r].resp.message = message

\* C31: an intake update that reaches the store replaces client_intake_data
\* with the submitted form, whatever intake the transaction held, and sets
\* workflow_status to CLIENT_INTAKE_COMPLETED; a submission answered "Intake
\* saved" is such an update, and the same form submitted again leaves the
\* client_intake_data of the first submission.
C31_ResubmissionReplaces ==
  [][\A r \in ReqIds :
       LET t == req[r].transactionId
       IN /\ IntakeApplied(r)
             => /\ transactions'[t].client_intake_data = req[r].form
                /\ transactions'[t].workflow_status = "CLIENT_INTAKE_COMPLETED"
                /\ transactions[t].client_intake_data = req[r].form
                     => transactions'[t].client_intake_data
                          = transactions[t].client_intake_data
          /\ IntakeAnswers(r, "Intake saved")
             => transactions'[t].client_intake_data = req[r].form]_vars

\* C31 witness: both requests were answered "Intake saved", the second one
\* submitted after the first returned; the transaction holds the second form
C31_Witness ==
  /\ \A r \in ReqIds : IsDone(r) /\ req[r].op = "intake"
                       /\ req[r].resp.message = "Intake saved"
  /\ req["r1"].form = <<"form_a">> /\ req["r2"].form = <<"form_b">>
  /\ "r1" \in req["r2"].after
  /\ transactions["t1"].client_intake_data = <<"form_b">>
  /\ transactions["t1"].workflow_status = "CLIENT_INTAKE_COMPLETED"

\* C39: when an intake submission is answered ok, on either path, the stored
\* client_intake_data is the form of that request.
C39_SuccessMeansThisFormStored ==
  [][\A r \in ReqIds :
       (\/ IntakeAnswers(r, "Intake saved")
        \/ IntakeAnswers(r, "Intake saved (verified after transient error)"))
       => transactions'[req[r].transactionId].client_intake_data = req[r].form]_vars

\* C39, the part that holds: an answer "verified after transient error" is
\* given only when the transaction read back holds some intake and a
\* completion time.
C39_VerifiedMeansSomeIntakeStored ==
  [][\A r \in ReqIds :
       IntakeAnswers(r, "Intake saved (verified after transient error)")
       => looksLikeIntakeSaved(transactions[req[r].transactionId])]_vars

----------------------------------------------------------------------------
(* Claims about single rows of the checklist *)

\* the facts the rows are derived from
DraftFieldSet(tx) ==
  \/ Truthy(tx.requisition_letter_draft)
  \/ Truthy(tx.requisition_letter_draft_html)
  \/ IsSet(tx.requisition_letter_generated_at)
TitleSearchDone(tx) == IsSet(tx.title_search_received_at) \/ HasData(tx.title_search_data)
IntakeDone(tx) == IsSet(tx.client_intake_completed_at) \/ HasData(tx.client_intake_data)
RankAtLeast(tx, status) == workflowRank(tx.workflow_status) >= workflowRank(status)

\* the transaction whose checklist request r rendered
RenderedTx(r) == transactions[req[r].transactionId]

C32_SentLawyerFollowsDraftFields ==
  \A r \in ReqIds :
    Rendered(r)
    => LET row == RowStatus(req[r].rows, "req_sent_lawyer")
           tx == RenderedTx(r)
       IN /\ row = "DONE" <=> RankAtLeast(tx, "REQUISITION_SENT_TO_LAWYER")
          /\ row = "PENDING"
               <=> (~RankAtLeast(tx, "REQUISITION_SENT_TO_LAWYER") /\ DraftFieldSet(tx))
          /\ row = "BLOCKED"
               <=> (~RankAtLeast(tx, "REQUISITION_SENT_TO_LAWYER") /\ ~DraftFieldSet(tx))

\* C33: req_draft is DONE iff a draft exists or the rank is at least that of
\* REQUISITION_DRAFT_READY; otherwise PENDING if the title search is done and
\* BLOCKED if it is not; so a transaction at REQUISITION_DRAFT_READY or a
\* later stage shows DONE with no draft field set.
C33_DraftRowByFieldOrRank ==
  \A r \in ReqIds :
    Rendered(r)
    => LET row == RowStatus(req[r].rows, "req_draft")
           tx == RenderedTx(r)
           done == DraftFieldSet(tx) \/ RankAtLeast(tx, "REQUISITION_DRAFT_READY")
       IN /\ row = "DONE" <=> done
          /\ row = "PENDING" <=> (~done /\ TitleSearchDone(tx))
          /\ row = "BLOCKED" <=> (~done /\ ~TitleSearchDone(tx))
          /\ tx.workflow_status \in
               {"REQUISITION_DRAFT_READY", "REQUISITION_SENT_TO_LAWYER",
                "REQUISITION_APPROVED", "REQUISITION_SENT_TO_VENDOR", "CLOSED"}
             => row = "DONE"

\* C33 witness: a transaction at REQUISITION_SENT_TO_LAWYER with no draft
\* field set and no title search was rendered with req_draft DONE
C33_Witness ==
  /\ Rendered("r1")
  /\ RenderedTx("r1").workflow_status = "REQUISITION_SENT_TO_LAWYER"
  /\ ~DraftFieldSet(RenderedTx("r1"))
  /\ ~TitleSearchDone(RenderedTx("r1"))
  /\ RowStatus(req["r1"].rows, "req_draft") = "DONE"

\* the keys of the rendered rows
RowKeys(rows) == {rows[i].key : i \in DOMAIN rows}
IncomingRowKeys ==
  {"incoming_docs_header"}
    \cup {"incoming_" \o IncomingDocRows[i].key : i \in DOMAIN IncomingDocRows}

\* the keys the inbound classifier can tick
ClassifierKeys ==
  detectIncomingDocs(
    {"reply to req", "statement of adjustments", "closing package", "hst",
     "statutory declaration", "residency", "spousal", "undertaking", "uff",
     "warranty", "bill of sale", "registration", "agreement", "please sign",
     "lawyer's undertaking", "mortgage", "payout statement"})

\* incoming_docs[key].received
Received(tx, key) == \E d \in tx.incoming_docs : d.key = key

\* the incoming rows: all of them or none, each after the key the
\* classifier writes
IncomingRowsFollowReceived(r) ==
  LET rows == req[r].rows
      tx == RenderedTx(r)
  IN /\ \/ IncomingRowKeys \subseteq RowKeys(rows)
        \/ IncomingRowKeys \cap RowKeys(rows) = {}
     /\ IncomingRowKeys \subseteq RowKeys(rows)
        => \A k \in ClassifierKeys :
             RowStatus(rows, "incoming_" \o k)
               = IF Received(tx, k) THEN "DONE" ELSE "PENDING"
     /\ {"incoming_" \o k : k \in ClassifierKeys} = IncomingRowKeys \ {"incoming_docs_header"}

\* C34: the header row and the 13 category rows are in the checklist exactly
\* when the req_sent_vendor row is DONE, and each category row is DONE iff
\* incoming_docs holds the key the inbound classifier writes for it, else
\* PENDING.
C34_IncomingRowsWhenSentToVendor ==
  \A r \in ReqIds :
    Rendered(r)
    => /\ IncomingRowsFollowReceived(r)
       /\ IncomingRowKeys \subseteq RowKeys(req[r].rows)
            <=> RowStatus(req[r].rows, "req_sent_vendor") = "DONE"

\* C34, the part that holds: the rows are in the checklist exactly when
\* workflow_status is REQUISITION_SENT_TO_VENDOR, each category row after
\* the key the classifier writes.
C34_IncomingRowsAtSentToVendorOnly ==
  \A r \in ReqIds :
    Rendered(r)
    => /\ IncomingRowsFollowReceived(r)
       /\ IncomingRowKeys \subseteq RowKeys(req[r].rows)
            <=> RenderedTx(r).workflow_status = "REQUISITION_SENT_TO_VENDOR"

\* C35: the intake row is DONE iff client_intake_completed_at is set or
\* client_intake_data is present; otherwise PENDING if a client email is on
\* file and BLOCKED if none is; it is never BLOCKED while the email row is
\* DONE.
C35_IntakeRow ==
  \A r \in ReqIds :
    Rendered(r)
    => LET rows == req[r].rows
           row == RowStatus(rows, "intake")
           tx == RenderedTx(r)
       IN /\ row = "DONE" <=> IntakeDone(tx)
          /\ row = "PENDING" <=> (~IntakeDone(tx) /\ Truthy(tx.client_email))
          /\ row = "BLOCKED" <=> (~IntakeDone(tx) /\ ~Truthy(tx.client_email))
          /\ RowStatus(rows, "email") = "DONE" => row # "BLOCKED"

\* C35 witness: with a client email on file and no intake, the email row is
\* DONE and the intake row PENDING
C35_Witness ==
  /\ Rendered("r1")
  /\ Truthy(RenderedTx("r1").client_email)
  /\ ~IntakeDone(RenderedTx("r1"))
  /\ RowStatus(req["r1"].rows, "email") = "DONE"
  /\ RowStatus(req["r1"].rows, "intake") = "PENDING"

----------------------------------------------------------------------------
(* The rank of the persisted workflow_status *)

\* the rank of a persisted status, the side branches of the draft ranking as
\* REQUISITION_DRAFT_READY
StageRank(status) ==
  IF status \in SideBranchStatuses
  THEN workflowRank("REQUISITION_DRAFT_READY")
  ELSE workflowRank(status)

\* this step lowers the rank of transaction t
RankDecreases(t) ==
  /\ transactions[t].present /\ transactions'[t].present
  /\ StageRank(transactions'[t].workflow_status) < StageRank(transactions[t].workflow_status)

\* request r takes this step
Acts(r) == req'[r] # req[r]

\* C36: no step of the automated operations lowers the rank of a
\* transaction's persisted workflow_status.
C36_RankNeverDecreases ==
  [][\A t \in TxIds : ~RankDecreases(t)]_vars

\* C36, the part that holds: the rank is lowered only by the intake
\* submission, the APS extraction, the inbound email and a repeated approval,
\* or on a file the operator had closed; an automation run on an open file
\* never lowers it.
C36_OnlyUnguardedWritesLowerRank ==
  [][\A t \in TxIds :
       RankDecreases(t)
       => \/ transactions[t].workflow_status = "CLOSED"
          \/ \E r \in ReqIds :
               Acts(r) /\ req[r].op \in {"intake", "extract", "inbound", "approve"}]_vars

----------------------------------------------------------------------------
(* The inbox row of a matched email *)

\* request r returned after it had matched its email to a transaction
ReturnedMatched(r) ==
  /\ InboundDone(r)
  /\ req[r].txId # Null
  /\ req[r].inserted \in DOMAIN inbox_emails

\* C37: once the request of a matched inbound email has returned, its inbox
\* row has status PROCESSED or ERROR, whatever failed after the match.
C37_MatchedEndsProcessedOrError ==
  \A r \in ReqIds :
    ReturnedMatched(r)
    => inbox_emails[req[r].inserted].status \in {"PROCESSED", "ERROR"}

\* C37, the part that holds: when no call failed, the inbox row of a matched
\* email whose request has returned is PROCESSED or ERROR.
C37_FaultFreeEndsProcessedOrError ==
  \A r \in ReqIds :
    (ReturnedMatched(r) /\ faults = InboundFaults)
    => inbox_emails[req[r].inserted].status \in {"PROCESSED", "ERROR"}

----------------------------------------------------------------------------
(* Whose row a creation returns *)

\* create request r was answered ok
CreatedOk(r) == CreateDone(r) /\ req[r].resp.ok

\* a row with the file number of request r that another request inserted
RowOfAnother(r) ==
  \E t \in TxIds :
    /\ transactions[t].present
    /\ transactions[t].file_number = req[r].fileNumber
    /\ \/ transactions[t].user_id # req[r].userId
       \/ \E q \in ReqIds \ {r} :
            /\ req[q].op = "create"
            /\ req[q].fileNumber = req[r].fileNumber
            /\ \E i \in DOMAIN req[q].hist :
                 req[q].hist[i] \in {"ok", "err_applied", "throw_applied"}

\* C38: when a creation reports success, an insert of that request reached
\* the store, and the row found by the read-back carries the requesting
\* user_id: it is never the row of another request.
C38_CreatedRowIsOwn ==
  \A r \in ReqIds :
    CreatedOk(r)
    => /\ AppliedAttempts(r) # {}
       /\ "verify" \in DOMAIN req[r] => req[r].verify.user_id = req[r].userId

\* C38, the part that holds: a creation reports success without an insert of
\* its own only when the file number it drew is held by a row of another
\* request.
C38_ForeignRowOnlyOnCollision ==
  \A r \in ReqIds :
    (CreatedOk(r) /\ AppliedAttempts(r) = {}) => RowOfAnother(r)

----------------------------------------------------------------------------
(* Outbox rows that were sent *)

\* this step changes outbox row i from status a to status b
RowGoes(i, a, b) ==
  /\ i \in DOMAIN email_outbox /\ i \in DOMAIN email_outbox'
  /\ email_outbox[i].status = a
  /\ email_outbox'[i].status = b

\* C40: no step changes an email_outbox row from SENT to FAILED.
C40_SentNeverBecomesFailed ==
  [][\A i \in DOMAIN email_outbox : ~RowGoes(i, "SENT", "FAILED")]_vars

\* C40, the part that holds: a row becomes FAILED only by the catch block of
\* an automation run for the row's transaction, and only a LAWYER_APPROVAL
\* row does; a SENT row is changed by no other step.
C40_FailedOnlyByCatchOfTransaction ==
  [][\A i \in DOMAIN email_outbox :
       /\ (email_outbox'[i].status = "FAILED" /\ email_outbox[i].status # "FAILED")
          => /\ email_outbox[i].kind = "LAWYER_APPROVAL"
             /\ \E r \in ReqIds :
                  /\ req[r].pc = "au_fail_outbox"
                  /\ req[r].auSnap.id = email_outbox[i].transaction_id
       /\ email_outbox[i].status = "SENT"
          => email_outbox'[i].status \in {"SENT", "FAILED"}]_vars

====
